---- MODULE Spec2Model ----
(***************************************************************************)
(* Thread-title synchronisation of openclaw.                               *)
(*                                                                         *)
(*   - applyThreadTitle (channels/thread-title.ts): the provider-generic   *)
(*     engine working on a ThreadTitleStateStore.                          *)
(*   - requestNativeThreadTitleRename (channels/thread-title-manager.ts):  *)
(*     the manager working on the persisted session entry and on the       *)
(*     process-local maps inFlightRenames and appliedThreadTitles.         *)
(*                                                                         *)
(* Both run on one event loop: an action is the code between two awaits.   *)
(* Absent (undefined) values: NoNumber for numbers, NoText for character   *)
(* sequences, "undefined" for strings and enum values.                     *)
(***************************************************************************)
EXTENDS Integers, Sequences, FiniteSets, TLC

\* ---------------------------------------------------------------- bounds
\* Number of applyThreadTitle calls that may be in flight at once.
MaxCalls == 2
\* applyThreadTitle calls are started only while the stored attempts counter
\* of the key is below this.
MaxAttempts == 2
\* The clock advances in steps of TickMs, up to MaxTicks * TickMs.
MaxTicks == 2
TickMs == 30000
\* What the clock reads in the initial state.
StartMs == 1000
\* Manager jobs that may be in flight at once.
MaxJobs == 2
MaxSets == 3           \* set operations on one in-memory state store
MaxGets == 1           \* get operations on one in-memory state store
MaxDelayAttempts == 9  \* attempt numbers the retry delay is computed for

\* ------------------------------------------------------- program constants
DEFAULT_MAX_ENTRIES == 5000
DEFAULT_RATE_LIMIT_DELAY_MS == 60000
DEFAULT_OTHER_DELAY_MS == 15000
MIN_RETRY_DELAY_MS == 1000
MIN_TITLE_LENGTH == 3

NoNumber == 0 - 1
NoText == <<>>

Max(a, b) == IF a >= b THEN a ELSE b
Min(a, b) == IF a <= b THEN a ELSE b

\* ------------------------------------------------------------------ text
\* A text is a sequence of one-character strings.

LowerChars == <<"a","b","c","d","e","f","g","h","i","j","k","l","m",
                "n","o","p","q","r","s","t","u","v","w","x","y","z">>
Digits == {"0","1","2","3","4","5","6","7","8","9"}

\* The number the leading digits of s read as; 0 when there is none.
RECURSIVE DigitsPrefixValue(_, _)
DigitsPrefixValue(s, acc) ==
  IF s # <<>> /\ Head(s) \in Digits
  THEN LET DigitValue ==
             CHOOSE d \in 0..9 : <<"0","1","2","3","4","5","6","7","8","9">>[d + 1] = Head(s)
       IN DigitsPrefixValue(Tail(s), 10 * acc + DigitValue)
  ELSE acc

\* String.prototype.toLowerCase, one character.
LowerChar(c) ==
  LET UpperChars == <<"A","B","C","D","E","F","G","H","I","J","K","L","M",
                      "N","O","P","Q","R","S","T","U","V","W","X","Y","Z">>
  IN IF \E i \in 1..26 : UpperChars[i] = c
     THEN LowerChars[CHOOSE i \in 1..26 : UpperChars[i] = c]
     ELSE c

ToLower(s) == [i \in 1..Len(s) |-> LowerChar(s[i])]

\* \s of the regular expressions.
IsWhitespace(c) == c \in {" ", "\t", "\n"}

RECURSIVE TrimStart(_)
TrimStart(s) ==
  IF s # <<>> /\ IsWhitespace(Head(s)) THEN TrimStart(Tail(s)) ELSE s

RECURSIVE TrimEnd(_)
TrimEnd(s) ==
  IF s # <<>> /\ IsWhitespace(s[Len(s)])
  THEN TrimEnd(SubSeq(s, 1, Len(s) - 1))
  ELSE s

\* String.prototype.trim
Trim(s) == TrimEnd(TrimStart(s))

\* String.prototype.includes
Includes(s, sub) ==
  \E i \in 1..(Len(s) - Len(sub) + 1) : SubSeq(s, i, i + Len(sub) - 1) = sub

\* Index of the first c in s, 0 when there is none.
IndexOf(s, c) ==
  IF \E i \in 1..Len(s) : s[i] = c
  THEN CHOOSE i \in 1..Len(s) : s[i] = c /\ \A j \in 1..(i - 1) : s[j] # c
  ELSE 0

\* .replace(/\s+/g, " ")
RECURSIVE CollapseWhitespace(_)
CollapseWhitespace(s) ==
  IF s = <<>> THEN <<>>
  ELSE IF IsWhitespace(Head(s))
       THEN <<" ">> \o CollapseWhitespace(TrimStart(s))
       ELSE <<Head(s)>> \o CollapseWhitespace(Tail(s))

\* value.replace(/[;:,.!?]+$/, "").trim()
RECURSIVE DropTrailingPunctuation(_)
DropTrailingPunctuation(s) ==
  IF s # <<>> /\ s[Len(s)] \in {";", ":", ",", ".", "!", "?"}
  THEN DropTrailingPunctuation(SubSeq(s, 1, Len(s) - 1))
  ELSE s

stripTrailingPunctuation(value) == Trim(DropTrailingPunctuation(value))

\* title.replace(/^[\s\-:;,.!?]+/, "").trim()
RECURSIVE DropLeadingPunctuation(_)
DropLeadingPunctuation(s) ==
  IF s # <<>> /\ (IsWhitespace(Head(s)) \/ Head(s) \in {"-", ":", ";", ",", ".", "!", "?"})
  THEN DropLeadingPunctuation(Tail(s))
  ELSE s

\* The number of leading characters of s that satisfy [a-z0-9_].
RECURSIVE CommandNameLength(_)
CommandNameLength(s) ==
  LET IsCommandChar(c) ==  \* [a-z0-9_] under the i flag
        \/ \E i \in 1..26 : LowerChars[i] = LowerChar(c)
        \/ c \in Digits
        \/ c = "_"
  IN IF s # <<>> /\ IsCommandChar(Head(s)) THEN 1 + CommandNameLength(Tail(s)) ELSE 0

SlashCommandNever(s) == FALSE

\* SLASH_COMMAND_RE = /^\/[a-z0-9_]+(?:\s|$)/i
SLASH_COMMAND_RE(s) ==
  /\ s # <<>>
  /\ Head(s) = "/"
  /\ LET n == CommandNameLength(Tail(s))
     IN /\ n >= 1
        /\ \/ Len(s) = n + 1
           \/ IsWhitespace(s[n + 2])

\* title.replace(/^slack thread\s+/i, "")
SlackThreadPrefix == <<"s","l","a","c","k"," ","t","h","r","e","a","d">>

StripSlackThreadPrefix(s) ==
  IF /\ Len(s) > Len(SlackThreadPrefix)
     /\ ToLower(SubSeq(s, 1, Len(SlackThreadPrefix))) = SlackThreadPrefix
     /\ IsWhitespace(s[Len(SlackThreadPrefix) + 1])
  THEN TrimStart(SubSeq(s, Len(SlackThreadPrefix) + 1, Len(s)))
  ELSE s

\* STICKER_PLACEHOLDER_RE = /^\[Sticker(?: [^\]]+)?\](?:\s+.*)?$/i
STICKER_PLACEHOLDER_RE(s) ==
  LET close == IndexOf(s, "]")
      inner == ToLower(SubSeq(s, 2, close - 1))
      sticker == <<"s","t","i","c","k","e","r">>
  IN /\ s # <<>> /\ Head(s) = "["
     /\ close > 0
     /\ \/ inner = sticker
        \/ /\ Len(inner) > Len(sticker) + 1
           /\ SubSeq(inner, 1, Len(sticker) + 1) = sticker \o <<" ">>
     /\ close = Len(s) \/ IsWhitespace(s[close + 1])

\* What a token [Slack file...], [Forwarded image...] or [attached...] holds
\* after its keyword, between the brackets as inner: found is whether inner
\* starts with a keyword, rest what follows the keyword.
SlackToken(inner) ==
  LET keywords == { <<"s","l","a","c","k"," ","f","i","l","e">>,
                    <<"f","o","r","w","a","r","d","e","d"," ","i","m","a","g","e">>,
                    <<"a","t","t","a","c","h","e","d">> }
      hits == { k \in keywords : Len(inner) >= Len(k) /\ ToLower(SubSeq(inner, 1, Len(k))) = k }
  IN IF hits = {} THEN [found |-> FALSE, rest |-> <<>>]
     ELSE [found |-> TRUE,
           rest |-> SubSeq(inner, Len(CHOOSE k \in hits : TRUE) + 1, Len(inner))]

\* .replace(SLACK_ATTACHMENT_NAME_TOKEN_RE, ...) when withName, the name of
\* the file put for the token; .replace(SLACK_MEDIA_PLACEHOLDER_TOKEN_RE, " ")
\* when not.
RECURSIVE ReplaceSlackTokens(_, _)
ReplaceSlackTokens(s, withName) ==
  IF s = <<>> THEN <<>>
  ELSE IF Head(s) = "[" /\ IndexOf(Tail(s), "]") > 0
  THEN LET close == IndexOf(Tail(s), "]")
           token == SlackToken(SubSeq(Tail(s), 1, close - 1))
           after == SubSeq(Tail(s), close + 1, Len(Tail(s)))
           named == token.rest # <<>> /\ Head(token.rest) = ":" /\ Len(token.rest) >= 2
           \* pickAttachmentName(value) on a name that holds no "|", "(", "/",
           \* "\" and no quote: the name trimmed, without trailing punctuation
           candidate == stripTrailingPunctuation(Trim(Tail(token.rest)))
       IN IF token.found /\ withName /\ named
          THEN (IF candidate # <<>> THEN <<" ">> \o candidate \o <<" ">> ELSE <<" ">>)
               \o ReplaceSlackTokens(after, withName)
          ELSE IF token.found /\ ~withName /\ (named \/ token.rest = <<>>)
          THEN <<" ">> \o ReplaceSlackTokens(after, withName)
          ELSE <<"[">> \o ReplaceSlackTokens(Tail(s), withName)
  ELSE <<Head(s)>> \o ReplaceSlackTokens(Tail(s), withName)

\* .replace(/<media:[^>]+>(?:\s*\([^)]*\))?/gi, " ")
RECURSIVE ReplaceMediaTokens(_)
ReplaceMediaTokens(s) ==
  LET open == <<"<","m","e","d","i","a",":">>
      body == SubSeq(s, Len(open) + 1, Len(s))
      close == IndexOf(body, ">")
      after == SubSeq(body, close + 1, Len(body))
      note == TrimStart(after)
  IN IF s = <<>> THEN <<>>
     ELSE IF Len(s) > Len(open) /\ ToLower(SubSeq(s, 1, Len(open))) = open /\ close > 1
     THEN <<" ">> \o ReplaceMediaTokens(
                       IF note # <<>> /\ Head(note) = "(" /\ IndexOf(note, ")") > 0
                       THEN SubSeq(note, IndexOf(note, ")") + 1, Len(note))
                       ELSE after)
     ELSE <<Head(s)>> \o ReplaceMediaTokens(Tail(s))

\* normalizeAttachmentTokens of the revision of conversation-title that also
\* exports isDefaultThreadPlaceholder, on a text that holds no <file> tag, no
\* [Image], [Audio] or [Video] marker, no section label and no "attached:"
\* note: those replacements match nothing there.
normalizeAttachmentTokens(value) ==
  LET trimmed == Trim(value)
  IN IF trimmed = <<>> \/ STICKER_PLACEHOLDER_RE(trimmed) THEN <<>>
     ELSE Trim(CollapseWhitespace(
            ReplaceSlackTokens(ReplaceMediaTokens(ReplaceSlackTokens(trimmed, TRUE)), FALSE)))

\* stripMediaPlaceholderTokens of the other revision of conversation-title.
stripMediaPlaceholderTokens(value) ==
  LET trimmed == Trim(value)
  IN IF trimmed = <<>> \/ STICKER_PLACEHOLDER_RE(trimmed) THEN <<>>
     ELSE Trim(CollapseWhitespace(ReplaceSlackTokens(ReplaceMediaTokens(trimmed), FALSE)))

\* isControlCommandMessage of auto-reply/command-detection: a recognised
\* control-command phrase.
isControlCommandMessage(text) == ToLower(Trim(text)) \in { <<"s","t","o","p">> }

\* One iteration of the loop over [primaryText, fallbackText]: the title this
\* source yields, or NoText where the loop continues with the next source.
\* The mention and message-id replacements match nothing in a text that
\* holds no "<@" and no "message id:". withNames: the revision that calls
\* normalizeAttachmentTokens; else the one that calls
\* stripMediaPlaceholderTokens.
TitleFromSource(source, maxChars, withNames) ==
  IF Trim(source) = <<>> THEN NoText
  ELSE
    LET t1 == Trim(CollapseWhitespace(source))
        \* the steps after the placeholder tokens are taken out
        Cut(t3) ==
          IF t3 = <<>> \/ isControlCommandMessage(t3) THEN NoText
          ELSE
            LET t4 == IF Len(t3) > maxChars
                      THEN Trim(SubSeq(t3, 1, maxChars))
                      ELSE t3
                t5 == stripTrailingPunctuation(t4)
            IN IF Len(t5) < MIN_TITLE_LENGTH THEN NoText ELSE t5
        \* the steps after the thread prefix is taken off
        Strip(t2) ==
          \* LOW_SIGNAL_RE = /^(?:hi|hello|hey|yo|ok|okay|test|ping)$/i
          IF \/ t2 = <<>>
             \/ ToLower(t2) \in { <<"h","i">>, <<"h","e","l","l","o">>, <<"h","e","y">>,
                                  <<"y","o">>, <<"o","k">>, <<"o","k","a","y">>,
                                  <<"t","e","s","t">>, <<"p","i","n","g">> }
          THEN NoText
          ELSE Cut(stripTrailingPunctuation(
                     IF withNames THEN normalizeAttachmentTokens(t2)
                     ELSE stripMediaPlaceholderTokens(t2)))
    IN IF t1 = <<>> \/ SLASH_COMMAND_RE(t1) THEN NoText
       ELSE Strip(Trim(DropLeadingPunctuation(StripSlackThreadPrefix(t1))))

\* deriveConversationTitle: NoText stands for undefined.
deriveConversationTitle(primaryText, fallbackText, maxCharsParam, withNames) ==
  LET maxChars == Max(1, maxCharsParam)
      first == TitleFromSource(primaryText, maxChars, withNames)
  IN IF first # NoText THEN first ELSE TitleFromSource(fallbackText, maxChars, withNames)

\* isDefaultThreadPlaceholder(value): no value, or one of the default names.
DEFAULT_THREAD_PLACEHOLDERS ==
  { <<"n","e","w"," ","c","o","n","v","e","r","s","a","t","i","o","n">>,
    <<"n","e","w"," ","t","h","r","e","a","d">>,
    <<"n","e","w"," ","c","h","a","t">>,
    <<"u","n","t","i","t","l","e","d">>,
    <<"g","e","n","e","r","a","l">>,
    <<"n","o"," ","t","i","t","l","e">> }

isDefaultThreadPlaceholder(value) ==
  \/ value = NoText
  \/ ToLower(Trim(value)) \in DEFAULT_THREAD_PLACEHOLDERS

\* ------------------------------------------------ thread-title state store
\* ThreadTitleState; a field the code leaves out is undefined.
UndefinedState ==
  [ threadKey |-> "undefined", status |-> "undefined", attempts |-> NoNumber,
    lastAttemptAt |-> NoNumber, appliedAt |-> NoNumber, appliedTitle |-> NoText,
    lastProposedTitle |-> NoText, retryAfter |-> NoNumber,
    lastErrorClass |-> "undefined" ]

ErrorClasses == {"permission", "rate_limit", "not_found", "unknown"}

\* a ?? b for numbers
Nullish(a, b) == IF a = NoNumber THEN b ELSE a

\* The stateMap of createInMemoryThreadTitleStateStore: a JavaScript Map, kept
\* as the sequence of its values in insertion order.
\* store.get(threadKey)
StoreGet(stateMap, threadKey) ==
  IF \E i \in 1..Len(stateMap) : stateMap[i].threadKey = threadKey
  THEN stateMap[CHOOSE i \in 1..Len(stateMap) : stateMap[i].threadKey = threadKey]
  ELSE UndefinedState

\* while (stateMap.size > maxEntries) delete the oldest key; the loop is
\* left when the oldest key is undefined (the map is empty) or empty.
RECURSIVE StoreEvict(_, _)
StoreEvict(stateMap, maxEntries) ==
  IF Len(stateMap) > maxEntries /\ stateMap # <<>> /\ Head(stateMap).threadKey # ""
  THEN StoreEvict(Tail(stateMap), maxEntries)
  ELSE stateMap

\* store.set(threadKey, state): stateMap.delete(threadKey), stateMap.set at
\* the end, then the eviction loop.
StoreSet(stateMap, threadKey, state, maxEntries) ==
  StoreEvict(Append(SelectSeq(stateMap, LAMBDA st : st.threadKey # threadKey), state),
             maxEntries)

\* setStoreState(store, state): nothing is stored under an empty key.
setStoreState(stateMap, state, maxEntries) ==
  IF state.threadKey = "" THEN stateMap
  ELSE StoreSet(stateMap, state.threadKey, state, maxEntries)

\* ------------------------------------------------------ targets, providers
\* ThreadTitleTarget values the calls are made with: one thread, named by
\* conversationId or by to, and a target that names no thread.
Targets ==
  { [channel |-> "slack", conversationId |-> "C123", to |-> "undefined", threadId |-> "100"],
    [channel |-> "slack", conversationId |-> "undefined", to |-> "C123", threadId |-> "100"],
    [channel |-> "slack", conversationId |-> "C123", to |-> "undefined", threadId |-> "undefined"] }

\* ThreadTitleProvider values: the channel, and whether the optional
\* getCurrentTitle is there. classifyError and retryAfterMs show in what a
\* rejected setTitle is classified as.
Providers ==
  { [channel |-> "slack", hasGetCurrentTitle |-> FALSE],
    [channel |-> "slack", hasGetCurrentTitle |-> TRUE],
    [channel |-> "telegram", hasGetCurrentTitle |-> FALSE] }

\* resolveDefaultThreadKey(target); "undefined" where it returns undefined.
\* The targets above are trimmed and in lower case.
resolveDefaultThreadKey(target) ==
  LET channel == target.channel
      conversationId == IF target.conversationId # "undefined" THEN target.conversationId
                        ELSE IF target.to # "undefined" THEN target.to
                        ELSE ""
      threadId == IF target.threadId # "undefined" THEN target.threadId ELSE ""
  IN IF channel = "" \/ conversationId = "" \/ threadId = ""
     THEN "undefined"
     ELSE channel \o ":" \o conversationId \o ":" \o threadId

ThreadKeys == { resolveDefaultThreadKey(t) : t \in Targets } \ {"undefined"}

\* Message texts the calls are made with.
TextStatus == <<"/","s","t","a","t","u","s">>
TextFix == <<" ","F","i","x"," "," ","b","u","g","!">>
TextPlan == <<"P","l","a","n"," ","t","r","i","p">>
PrimaryTexts == {TextStatus, <<"H","i">>, TextFix, TextPlan}
FallbackTexts == {NoText, TextFix}
MaxCharsValues == {80}

\* deriveConversationTitle on the texts above, computed once.
DerivedTitles ==
  [ primaryText \in PrimaryTexts, fallbackText \in FallbackTexts,
    maxChars \in MaxCharsValues |->
      deriveConversationTitle(primaryText, fallbackText, maxChars, TRUE) ]

\* What provider.getCurrentTitle may resolve to.
CurrentTitles ==
  { NoText, <<"U","n","t","i","t","l","e","d">>, <<"O","l","d"," ","n","a","m","e">> }

\* What the provider's retryAfterMs may return (NoNumber: nothing, or the
\* provider has no retryAfterMs).
RetryAfterMsValues == {NoNumber, 500, 90000}

\* ------------------------------------------------------------------ state
VARIABLES
  now,          \* the clock read by nowMs() / Date.now()
  stateStore,   \* the stateMap of the ThreadTitleStateStore the calls share
  calls,        \* the applyThreadTitle calls, each at its await
  ev,           \* what the last step did: external functions invoked, result returned
  sessionStore,         \* the persisted session entries' nativeThreadTitle
  inFlightRenames,      \* the keys of the manager's inFlightRenames map
  appliedThreadTitles,  \* the manager's appliedThreadTitles map, in insertion order
  aiTitleDisabledUntil, \* the manager's aiTitleDisabledUntil
  jobs,                 \* the jobs of requestNativeThreadTitleRename, each at its await
  lastParams,   \* the last call as its caller sees it: arguments no other variable keeps
  llm           \* the generateThreadTitleViaLLM call, at its await

applyVars == <<stateStore, calls>>

\* No call has been made yet.
NoParams == [op |-> "none"]

\* No generateThreadTitleViaLLM call is under way. timer is the timeout
\* timer: "none" (never created), "armed", "fired" or "cleared"; fetches
\* counts the network calls; result is what the promise settled with.
IdleLlm ==
  [pc |-> "idle", provider |-> NoText, model |-> NoText, apiKey |-> NoText,
   timer |-> "none", timerAt |-> NoNumber, aborted |-> FALSE, fetches |-> 0,
   outcome |-> "none", result |-> [kind |-> "pending", title |-> NoText]]
managerVars ==
  <<sessionStore, inFlightRenames, appliedThreadTitles, aiTitleDisabledUntil, jobs>>

Calls == 1..MaxCalls

IdleCall == [pc |-> "idle", now |-> NoNumber, baseState |-> UndefinedState]

NoResult == [outcome |-> "none", reason |-> "none", errorClass |-> "undefined"]

Result(outcome, reason, errorClass) ==
  [outcome |-> outcome, reason |-> reason, errorClass |-> errorClass]

\* A step of call id on threadKey that invoked the given external functions
\* and returned result (NoResult while the call goes on).
Event(op, id, threadKey, invoked, result) ==
  [op |-> op, id |-> id, threadKey |-> threadKey, invoked |-> invoked, result |-> result]


\* The same with the attempts left as they were: C15 tells them apart.
BaseStateSameAttempts(threadKey, existingState, title, nowMs) ==
  [ threadKey |-> threadKey,
    status |-> "pending",
    attempts |-> Nullish(existingState.attempts, 1),
    lastAttemptAt |-> nowMs,
    lastProposedTitle |-> title,
    lastErrorClass |-> existingState.lastErrorClass,
    appliedAt |-> existingState.appliedAt,
    appliedTitle |-> existingState.appliedTitle,
    retryAfter |-> existingState.retryAfter ]

\* The record written before any external call (baseState).
BaseState(threadKey, existingState, title, nowMs) ==
  [ threadKey |-> threadKey,
    status |-> "pending",
    attempts |-> Nullish(existingState.attempts, 0) + 1,
    lastAttemptAt |-> nowMs,
    lastProposedTitle |-> title,
    lastErrorClass |-> existingState.lastErrorClass,
    appliedAt |-> existingState.appliedAt,
    appliedTitle |-> existingState.appliedTitle,
    retryAfter |-> existingState.retryAfter ]

\* The eligibility checks without the one for applied: C2 tells them apart.
EligibilityIgnoresApplied(existingState, nowMs) ==
  IF existingState.status = "disabled" THEN "disabled"
  ELSE IF /\ existingState.status = "retry_after"
          /\ existingState.retryAfter # NoNumber
          /\ existingState.retryAfter > nowMs
       THEN "cooldown"
  ELSE "eligible"

\* The eligibility checks on the stored state: the reason the call is skipped
\* for, or "eligible".
Eligibility(existingState, nowMs) ==
  IF existingState.status = "disabled" THEN "disabled"
  ELSE IF /\ existingState.status = "retry_after"
          /\ existingState.retryAfter # NoNumber
          /\ existingState.retryAfter > nowMs
       THEN "cooldown"
  ELSE IF existingState.status = "applied" THEN "already_applied"
  ELSE "eligible"

\* A resolver that makes a key of every numeric topic id: C24 tells them
\* apart.
TelegramKeyOfAnyTopic(target) ==
  IF target.threadId.type = "number"
  THEN "telegram:chat:" \o ToString(target.threadId.tenths \div 10)
  ELSE "undefined"

\* Math.trunc(Number(target.threadId)) of the Telegram adapter, NaN when
\* target.threadId is null or undefined: nan, or the integer value.
\* threadId is undefined, NaN, a number in tenths, or a string with its text.
\* Number(string) is read for decimal numerals with an optional sign and
\* fraction; any other non-blank string gives NaN.
TelegramTopicId(threadId) ==
  LET \* the number of digits text begins with
      DigitCount(text) ==
        IF \E i \in 1..Len(text) : text[i] \notin Digits
        THEN (CHOOSE i \in 1..Len(text) :
                text[i] \notin Digits /\ \A k \in 1..(i - 1) : text[k] \in Digits) - 1
        ELSE Len(text)
      trimmed == Trim(threadId.text)
      negative == trimmed # <<>> /\ Head(trimmed) = "-"
      unsigned == IF trimmed # <<>> /\ Head(trimmed) \in {"-", "+"} THEN Tail(trimmed) ELSE trimmed
      whole == DigitCount(unsigned)
      afterWhole == SubSeq(unsigned, whole + 1, Len(unsigned))
      fraction == IF afterWhole # <<>> /\ Head(afterWhole) = "."
                  THEN DigitCount(Tail(afterWhole)) ELSE 0
      wellFormed ==
        /\ whole + fraction >= 1
        /\ Len(afterWhole) = (IF afterWhole # <<>> /\ Head(afterWhole) = "." THEN 1 ELSE 0) + fraction
      magnitude == DigitsPrefixValue(unsigned, 0)
  IN CASE threadId.type = "number" ->
            [nan |-> FALSE,
             value |-> IF threadId.tenths >= 0 THEN threadId.tenths \div 10
                       ELSE 0 - ((0 - threadId.tenths) \div 10)]
       [] threadId.type = "string" /\ trimmed = <<>> -> [nan |-> FALSE, value |-> 0]
       [] threadId.type = "string" /\ wellFormed ->
            [nan |-> FALSE, value |-> IF negative THEN 0 - magnitude ELSE magnitude]
       [] OTHER -> [nan |-> TRUE, value |-> 0]

\* resolveThreadKey of createTelegramThreadTitleProvider; "undefined" where
\* it returns undefined. target.conversationId is a text, NoText when it is
\* not there.
TelegramResolveThreadKey(target) ==
  LET chatId == Trim(target.conversationId)
      \* the first n characters of chatId as one string
      Join[n \in 0..Len(chatId)] == IF n = 0 THEN "" ELSE Join[n - 1] \o chatId[n]
      topicId == TelegramTopicId(target.threadId)
  IN IF chatId = <<>> \/ topicId.nan \/ topicId.value <= 1
     THEN "undefined"
     ELSE "telegram:" \o Join[Len(chatId)] \o ":" \o ToString(topicId.value)

\* setTitle of createTelegramThreadTitleProvider returns without a call of
\* renameForumTopicTelegram: if (!chatId || !Number.isFinite(topicId) ||
\* topicId <= 1 || !trimmedTitle) return.
TelegramSetTitleReturnsEarly(target, title) ==
  LET chatId == Trim(target.conversationId)
      topicId == TelegramTopicId(target.threadId)
      trimmedTitle == Trim(title)
  IN chatId = <<>> \/ topicId.nan \/ topicId.value <= 1 \/ trimmedTitle = <<>>

\* A Slack resolver that makes a key of every target with a channel id: C38
\* tells them apart.
SlackKeyOfAnyThread(target) ==
  IF Trim(target.conversationId) = <<>> THEN "undefined" ELSE "slack:chan:thread"

\* resolveThreadKey of createSlackThreadTitleProvider; "undefined" where it
\* returns undefined. target.conversationId and target.threadId are texts,
\* NoText when they are not there (a thread id that is a number is the text
\* String gives it).
SlackResolveThreadKey(target) ==
  LET channelId == Trim(target.conversationId)
      threadTs == Trim(target.threadId)
      Join[s \in {SubSeq(channelId, 1, n) : n \in 0..Len(channelId)}
                \cup {SubSeq(threadTs, 1, n) : n \in 0..Len(threadTs)}] ==
        IF s = <<>> THEN "" ELSE Join[SubSeq(s, 1, Len(s) - 1)] \o s[Len(s)]
  IN IF channelId = <<>> \/ threadTs = <<>>
     THEN "undefined"
     ELSE "slack:" \o Join[channelId] \o ":" \o Join[threadTs]

\* setTitle of createSlackThreadTitleProvider returns without a call of the
\* Slack client: if (!channelId || !threadTs || !trimmedTitle) return.
SlackSetTitleReturnsEarly(target, title) ==
  LET channelId == Trim(target.conversationId)
      threadTs == Trim(target.threadId)
      trimmedTitle == Trim(title)
  IN channelId = <<>> \/ threadTs = <<>> \/ trimmedTitle = <<>>

\* The same for a call that records its attempt before it looks for a title:
\* C14 tells them apart.
ApplySkipRecordsAttempt(c, threadKey, reason) ==
  /\ ev' = Event("start", c, threadKey, {}, Result("skipped", reason, "undefined"))
  /\ stateStore' =
       IF reason = "no_candidate"
       THEN setStoreState(stateStore,
              BaseState(threadKey, StoreGet(stateStore, threadKey), NoText, now),
              DEFAULT_MAX_ENTRIES)
       ELSE stateStore
  /\ UNCHANGED calls

\* The call returns result without having touched the store or the provider.
ApplySkip(c, threadKey, reason) ==
  /\ ev' = Event("start", c, threadKey, {}, Result("skipped", reason, "undefined"))
  /\ UNCHANGED <<stateStore, calls>>

\* applyThreadTitle from its entry to its first await or to its return.
ApplyStart(c, provider, target, primaryText, fallbackText, maxChars) ==
  /\ calls[c].pc = "idle"
  /\ LET Start(threadKey, title) ==
           LET existingState == StoreGet(stateStore, threadKey)
               eligibility == Eligibility(existingState, now)
               baseState == BaseState(threadKey, existingState, title, now)
           IN IF target.channel = "" \/ target.channel # provider.channel
              THEN ApplySkip(c, "undefined", "provider_mismatch")
              ELSE IF threadKey = "undefined"
              THEN ApplySkip(c, "undefined", "unsupported_target")
              ELSE IF eligibility # "eligible"
              THEN ApplySkip(c, threadKey, eligibility)
              ELSE IF title = NoText
              THEN ApplySkip(c, threadKey, "no_candidate")
              ELSE /\ baseState.attempts <= MaxAttempts
                   /\ stateStore' = setStoreState(stateStore, baseState, DEFAULT_MAX_ENTRIES)
                   /\ IF provider.hasGetCurrentTitle
                      THEN /\ calls' = [calls EXCEPT ![c] =
                                 [pc |-> "getCurrentTitle", now |-> now, baseState |-> baseState]]
                           /\ ev' = Event("start", c, threadKey, {"getCurrentTitle"}, NoResult)
                      ELSE /\ calls' = [calls EXCEPT ![c] =
                                 [pc |-> "setTitle", now |-> now, baseState |-> baseState]]
                           /\ ev' = Event("start", c, threadKey, {"setTitle"}, NoResult)
     IN Start(\* params.provider.resolveThreadKey ?? resolveDefaultThreadKey
              IF "resolveThreadKey" \in DOMAIN provider
              THEN IF provider.channel = "slack"
                   THEN SlackResolveThreadKey(target)
                   ELSE TelegramResolveThreadKey(target)
              ELSE resolveDefaultThreadKey(target),
              DerivedTitles[primaryText, fallbackText, maxChars])
  /\ UNCHANGED <<now, managerVars, llm>>

\* The same without the catch around the probe: C13 tells them apart.
CurrentTitleProbeUncaught(rejects, currentTitle) ==
  IF rejects THEN "throws"
  ELSE IF currentTitle # NoText /\ ~isDefaultThreadPlaceholder(currentTitle)
       THEN "existing_title_present"
  ELSE "proceed"

\* What the try block around provider.getCurrentTitle comes to: the thread has
\* a title of its own, or the call goes on to setTitle (also when
\* getCurrentTitle rejects: the catch is empty). "throws" would be an error
\* that leaves the block.
CurrentTitleProbe(rejects, currentTitle) ==
  IF ~rejects /\ currentTitle # NoText /\ ~isDefaultThreadPlaceholder(currentTitle)
  THEN "existing_title_present"
  ELSE "proceed"

\* provider.getCurrentTitle settles: it resolves to currentTitle, or rejects.
ApplyCurrentTitleSettles(c, rejects, currentTitle) ==
  /\ calls[c].pc = "getCurrentTitle"
  /\ LET baseState == calls[c].baseState
         probe == CurrentTitleProbe(rejects, currentTitle)
     IN IF probe = "existing_title_present"
        THEN /\ stateStore' = setStoreState(stateStore,
                    [baseState EXCEPT !.status = "disabled",
                                      !.appliedAt = calls[c].now,
                                      !.appliedTitle = currentTitle],
                    DEFAULT_MAX_ENTRIES)
             /\ calls' = [calls EXCEPT ![c] = IdleCall]
             /\ ev' = Event("currentTitle", c, baseState.threadKey, {},
                            Result("skipped", "existing_title_present", "undefined"))
        ELSE IF probe = "proceed"
        THEN /\ calls' = [calls EXCEPT ![c].pc = "setTitle"]
             /\ ev' = Event("currentTitle", c, baseState.threadKey, {"setTitle"}, NoResult)
             /\ UNCHANGED stateStore
        ELSE /\ calls' = [calls EXCEPT ![c] = IdleCall]
             /\ ev' = Event("currentTitle", c, baseState.threadKey, {},
                            Result("rejected", "rejected", "undefined"))
             /\ UNCHANGED stateStore
  /\ UNCHANGED <<now, managerVars, lastParams, llm>>

\* The delay without its floor of one second: C7 tells them apart.
RetryDelayMsUnfloored(errorClass, retryAfterMs) ==
  Nullish(retryAfterMs,
          IF errorClass = "rate_limit"
          THEN DEFAULT_RATE_LIMIT_DELAY_MS
          ELSE DEFAULT_OTHER_DELAY_MS)

\* The delay before the next attempt after a failure of class errorClass,
\* retryAfterMs being what the provider's retryAfterMs returned.
RetryDelayMs(errorClass, retryAfterMs) ==
  Max(MIN_RETRY_DELAY_MS,
      Nullish(retryAfterMs,
              IF errorClass = "rate_limit"
              THEN DEFAULT_RATE_LIMIT_DELAY_MS
              ELSE DEFAULT_OTHER_DELAY_MS))

\* The same with retryAfter and lastErrorClass left as the attempt's record
\* has them: C31 tells them apart.
AppliedStateKeepsFailure(baseState, nowMs) ==
  [baseState EXCEPT !.status = "applied",
                    !.appliedAt = nowMs,
                    !.appliedTitle = baseState.lastProposedTitle]

\* The state stored after setTitle resolved.
AppliedState(baseState, nowMs) ==
  [baseState EXCEPT !.status = "applied",
                    !.appliedAt = nowMs,
                    !.appliedTitle = baseState.lastProposedTitle,
                    !.retryAfter = NoNumber,
                    !.lastErrorClass = "undefined"]

\* The state stored after setTitle rejected.
FailedState(baseState, nowMs, errorClass, retryAfterMs) ==
  IF errorClass = "permission" \/ errorClass = "not_found"
  THEN [baseState EXCEPT !.status = "disabled", !.lastErrorClass = errorClass]
  ELSE [baseState EXCEPT !.status = "retry_after",
                         !.retryAfter = nowMs + RetryDelayMs(errorClass, retryAfterMs),
                         !.lastErrorClass = errorClass]

\* provider.setTitle settles: it resolves, or rejects with an error that is
\* classified errorClass.
ApplySetTitleSettles(c, rejects, errorClass, retryAfterMs) ==
  /\ calls[c].pc = "setTitle"
  /\ LET baseState == calls[c].baseState
     IN IF ~rejects
        THEN /\ stateStore' = setStoreState(stateStore,
                    AppliedState(baseState, calls[c].now), DEFAULT_MAX_ENTRIES)
             /\ ev' = Event("setTitle", c, baseState.threadKey, {},
                            Result("applied", "applied", "undefined"))
        ELSE /\ stateStore' = setStoreState(stateStore,
                    FailedState(baseState, calls[c].now, errorClass, retryAfterMs),
                    DEFAULT_MAX_ENTRIES)
             /\ ev' = Event("setTitle", c, baseState.threadKey, {},
                            Result("failed", "set_title_failed", errorClass))
  /\ calls' = [calls EXCEPT ![c] = IdleCall]
  /\ UNCHANGED <<now, managerVars, lastParams, llm>>

\* The calls are interchangeable: a new call takes the first free slot.
FirstIdleCall(c) ==
  /\ calls[c].pc = "idle"
  /\ \A d \in Calls : d < c => calls[d].pc # "idle"

ApplyStartAny ==
  \E c \in {d \in Calls : FirstIdleCall(d)}, provider \in Providers, target \in Targets,
     primaryText \in PrimaryTexts, fallbackText \in FallbackTexts,
     maxChars \in MaxCharsValues :
    /\ ApplyStart(c, provider, target, primaryText, fallbackText, maxChars)
    /\ UNCHANGED lastParams

\* A call whose params carry fields that the parameter type of
\* applyThreadTitle does not declare and its body never reads: isFirstMessage,
\* strategy, and what generateLlmTitle would resolve to (NoText: undefined).
\* The call is the same.
ApplyStartWithOptionsAny ==
  LET CallOptions ==
        { [op |-> "apply", isFirstMessage |-> "false", strategy |-> "undefined",
           llmTitle |-> NoText],
          [op |-> "apply", isFirstMessage |-> "true", strategy |-> "undefined",
           llmTitle |-> NoText],
          [op |-> "apply", isFirstMessage |-> "undefined", strategy |-> "llm",
           llmTitle |-> <<"F","i","x"," ","B","u","g">>],
          [op |-> "apply", isFirstMessage |-> "undefined", strategy |-> "llm",
           llmTitle |-> NoText] }
  IN \E c \in {d \in Calls : FirstIdleCall(d)}, provider \in Providers, target \in Targets,
        primaryText \in {TextStatus, TextPlan}, fallbackText \in {NoText},
        maxChars \in MaxCharsValues, options \in CallOptions :
       /\ ApplyStart(c, provider, target, primaryText, fallbackText, maxChars)
       /\ lastParams' = options

ApplyCurrentTitleSettlesAny ==
  \E c \in Calls, rejects \in BOOLEAN, currentTitle \in CurrentTitles :
    ApplyCurrentTitleSettles(c, rejects, currentTitle)

ApplySetTitleSettlesAny ==
  \E c \in Calls, rejects \in BOOLEAN, errorClass \in ErrorClasses,
     retryAfterMs \in RetryAfterMsValues :
    ApplySetTitleSettles(c, rejects, errorClass, retryAfterMs)


\* ------------------------------------------------- thread-title manager
RATE_LIMIT_RETRY_MS == 300000
NOT_FOUND_RETRY_MS == 1800000
PENDING_LEASE_MS == 60000
MAX_PENDING_ATTEMPTS == 5000
AI_FAILURE_BACKOFF_MS == 600000
UNKNOWN_RETRY_BASE_MS == 60000
UNKNOWN_RETRY_CAP_MS == 3600000

\* NativeThreadRef values the requests are made with.
ThreadRefs ==
  { [provider |-> "slack", accountId |-> "default", channelId |-> "C1", threadTs |-> "123"],
    [provider |-> "telegram", accountId |-> "default", chatId |-> "123",
     threadId |-> "55", threadKind |-> "dm"] }

\* buildNativeThreadKey(threadRef); threadId stands for String(threadRef.threadId).
buildNativeThreadKey(threadRef) ==
  IF threadRef.provider = "slack"
  THEN "slack:" \o threadRef.accountId \o ":" \o threadRef.channelId \o ":" \o threadRef.threadTs
  ELSE "telegram:" \o threadRef.accountId \o ":" \o threadRef.chatId \o ":"
         \o threadRef.threadKind \o ":" \o threadRef.threadId

NativeThreadKeys == { buildNativeThreadKey(r) : r \in ThreadRefs }

\* The session keys of the store, in the order Object.values lists their
\* entries; a request may also come with no sessionKey.
SessionOrder == <<"agent:main:direct:U1", "agent:main:direct:U2">>
SessionKeys == { SessionOrder[i] : i \in 1..Len(SessionOrder) }

\* Titles the title model's answer is sanitized to.
AiTitles == { <<"F","i","x"," ","B","u","g">>, <<"P","l","a","n"," ","T","r","i","p">> }

\* 2 ** n
RECURSIVE Pow2(_)
Pow2(n) == IF n <= 0 THEN 1 ELSE 2 * Pow2(n - 1)

\* The same without the cap on the delay after an unknown error: C30 tells
\* them apart.
RetryDelayUncapped(errorClass, attempts) ==
  IF errorClass = "permission" THEN 0
  ELSE IF errorClass = "rate_limit" THEN RATE_LIMIT_RETRY_MS
  ELSE IF errorClass = "not_found" THEN NOT_FOUND_RETRY_MS
  ELSE UNKNOWN_RETRY_BASE_MS * Pow2(Max(0, attempts - 1))

\* resolveRetryDelayMs({errorClass, attempts})
resolveRetryDelayMs(errorClass, attempts) ==
  IF errorClass = "permission" THEN 0
  ELSE IF errorClass = "rate_limit" THEN RATE_LIMIT_RETRY_MS
  ELSE IF errorClass = "not_found" THEN NOT_FOUND_RETRY_MS
  ELSE Min(UNKNOWN_RETRY_BASE_MS * Pow2(Max(0, attempts - 1)), UNKNOWN_RETRY_CAP_MS)

\* normalizeTitlePromptSource(value) on a text that holds no "<" and no "[";
\* NoText stands for undefined.
normalizeTitlePromptSource(value) ==
  LET text == Trim(CollapseWhitespace(value))
  IN IF text = <<>> THEN NoText
     ELSE IF \/ isDefaultThreadPlaceholder(text)
             \/ SLASH_COMMAND_RE(text)
             \/ isControlCommandMessage(text)
          THEN NoText
     ELSE text

\* The promptSeed of maybeGenerateAiThreadTitle: the first of the two texts
\* that normalizes to something.
PromptSeeds ==
  [ primaryText \in PrimaryTexts, fallbackText \in FallbackTexts |->
      IF normalizeTitlePromptSource(primaryText) # NoText
      THEN normalizeTitlePromptSource(primaryText)
      ELSE normalizeTitlePromptSource(fallbackText) ]

\* appliedThreadTitles.get(threadKey) is there
AppliedCacheHas(cache, threadKey) ==
  \E i \in 1..Len(cache) : cache[i].threadKey = threadKey

\* rememberAppliedThreadTitleWithTitle({threadKey, title})
rememberAppliedThreadTitleWithTitle(cache, threadKey, title) ==
  LET added == Append(SelectSeq(cache, LAMBDA e : e.threadKey # threadKey),
                      [threadKey |-> threadKey, title |-> title])
  IN IF Len(added) <= MAX_PENDING_ATTEMPTS THEN added ELSE Tail(added)

\* The title findAppliedThreadTitleInStore takes from one entry, or NoText.
AppliedTitleOfEntry(state, threadKey) ==
  IF state.threadKey # threadKey \/ state.status # "applied" THEN NoText
  ELSE LET appliedTitle == IF state.appliedTitle # NoText
                           THEN state.appliedTitle
                           ELSE state.lastProposedTitle
       IN IF /\ appliedTitle # NoText
             /\ Trim(appliedTitle) # <<>>
             /\ ~isDefaultThreadPlaceholder(appliedTitle)
          THEN appliedTitle
          ELSE NoText

\* findAppliedThreadTitleInStore: the first entry of the store that holds an
\* applied title for threadKey; NoText when there is none or the store cannot
\* be loaded.
findAppliedThreadTitleInStore(store, threadKey, loadThrows) ==
  LET hits == { i \in 1..Len(SessionOrder) :
                  AppliedTitleOfEntry(store[SessionOrder[i]], threadKey) # NoText }
  IN IF loadThrows \/ hits = {} THEN NoText
     ELSE AppliedTitleOfEntry(
            store[SessionOrder[CHOOSE i \in hits : \A k \in hits : i <= k]], threadKey)

\* An error value, as the set of the patterns its text matches.
RenameErrors == SUBSET {"PERMISSION_RE", "RATE_LIMIT_RE", "NOT_FOUND_RE"}

\* classifyRenameError(error)
classifyRenameError(error) ==
  IF "PERMISSION_RE" \in error THEN "permission"
  ELSE IF "RATE_LIMIT_RE" \in error THEN "rate_limit"
  ELSE IF "NOT_FOUND_RE" \in error THEN "not_found"
  ELSE "unknown"

\* The same without the early retry on a new title: C8 tells them apart.
MarkAttemptRefusesInCooldown(state, threadKey, title, nowMs) ==
  /\ state.threadKey = threadKey
  /\ \/ state.status = "disabled"
     \/ state.status = "applied"
     \/ /\ state.retryAfter # NoNumber /\ state.retryAfter # 0
        /\ state.retryAfter > nowMs
     \/ /\ state.status = "pending"
        /\ state.lastAttemptAt # NoNumber /\ state.lastAttemptAt # 0
        /\ nowMs - state.lastAttemptAt < PENDING_LEASE_MS

\* The update callback of markRenameAttempt returns null (the entry stays as
\* it is) for this stored state.
MarkAttemptRefuses(state, threadKey, title, nowMs) ==
  /\ state.threadKey = threadKey
  /\ \/ state.status = "disabled"
     \/ state.status = "applied"
     \/ /\ state.retryAfter # NoNumber /\ state.retryAfter # 0
        /\ state.retryAfter > nowMs
        /\ ~ ( /\ state.status = "retry_after"
               /\ state.lastErrorClass = "unknown"
               /\ state.lastProposedTitle # title )
     \/ /\ state.status = "pending"
        /\ state.lastAttemptAt # NoNumber /\ state.lastAttemptAt # 0
        /\ nowMs - state.lastAttemptAt < PENDING_LEASE_MS

\* The nextState the update callback of markRenameAttempt returns otherwise.
MarkAttemptNextState(state, threadKey, title, nowMs) ==
  [ UndefinedState EXCEPT
      !.threadKey = threadKey,
      !.status = "pending",
      !.attempts = (IF state.threadKey = threadKey THEN Nullish(state.attempts, 0) ELSE 0) + 1,
      !.lastAttemptAt = nowMs,
      !.lastProposedTitle = title ]

\* updateSessionStoreEntry on an entry that is there, as the test double of
\* the manager's tests has it: the entry's nativeThreadTitle afterwards, which
\* is also what the call resolves to. refused: the update callback returned
\* null, and the entry is handed back as it is.
updateSessionStoreEntry(state, refused, nextState) ==
  IF refused THEN state ELSE nextState

\* The update of markRenameAttempt.
MarkAttemptUpdate(state, threadKey, title, nowMs) ==
  updateSessionStoreEntry(state,
                          MarkAttemptRefuses(state, threadKey, title, nowMs),
                          MarkAttemptNextState(state, threadKey, title, nowMs))

\* shouldApply from the thread key alone: C10 tells them apart.
ShouldApplyAnyStatus(updated, threadKey) ==
  updated.threadKey = threadKey

\* markRenameAttempt's shouldApply, from the state updateSessionStoreEntry returned.
ShouldApply(updated, threadKey) ==
  /\ updated.threadKey = threadKey
  /\ updated.status = "pending"

\* The nextState the update callback of markRenameResult returns for a state
\* of threadKey: errorClass is "undefined" after a success.
MarkResultNextState(state, threadKey, title, attempts, errorClass, nowMs) ==
  IF errorClass = "undefined"
  THEN [ UndefinedState EXCEPT
           !.threadKey = threadKey, !.status = "applied", !.attempts = attempts,
           !.lastAttemptAt = nowMs, !.appliedAt = nowMs,
           !.appliedTitle = title, !.lastProposedTitle = title ]
  ELSE IF errorClass = "permission"
  THEN [ state EXCEPT !.status = "disabled", !.attempts = attempts,
                      !.lastAttemptAt = nowMs, !.lastErrorClass = errorClass ]
  ELSE [ state EXCEPT !.status = "retry_after", !.attempts = attempts,
                      !.lastAttemptAt = nowMs, !.lastErrorClass = errorClass,
                      !.retryAfter = nowMs + resolveRetryDelayMs(errorClass, attempts) ]

\* The update of markRenameResult: the callback returns null for the state of
\* another thread key.
MarkResultUpdate(state, threadKey, title, attempts, errorClass, nowMs) ==
  updateSessionStoreEntry(state,
                          state.threadKey # threadKey,
                          MarkResultNextState(state, threadKey, title, attempts,
                                              errorClass, nowMs))

Jobs == 1..MaxJobs

IdleJob ==
  [pc |-> "idle", threadKey |-> "undefined", sessionKey |-> "undefined",
   title |-> NoText, attempts |-> NoNumber]

\* The job's promise settled; its finally callback has not run yet.
Settled(job) == [IdleJob EXCEPT !.pc = "settled", !.threadKey = job.threadKey]

\* The same without the look at inFlightRenames: C3 tells them apart.
RequestIgnoresInFlight(threadKey) ==
  AppliedCacheHas(appliedThreadTitles, threadKey)

\* requestNativeThreadTitleRename returns at once, starting no job: the title
\* of threadKey is known to be applied, or a job for threadKey is in flight.
RequestReturnsAtOnce(threadKey) ==
  \/ AppliedCacheHas(appliedThreadTitles, threadKey)
  \/ threadKey \in inFlightRenames

\* The same with the look at aiTitleDisabledUntil left out: C18 tells them
\* apart.
AiTitleNeverDisabled(nowMs) == FALSE

\* maybeGenerateAiThreadTitle returns undefined at once: the title model
\* failed less than AI_FAILURE_BACKOFF_MS ago.
AiTitleDisabled(nowMs) == nowMs < aiTitleDisabledUntil

\* The same with the look at the session store left out: C11 tells them
\* apart.
PersistedAppliedTitleSkipped(store, threadKey, loadThrows) == NoText

\* The persistedAppliedTitle of the job.
PersistedAppliedTitle(store, threadKey, loadThrows) ==
  findAppliedThreadTitleInStore(store, threadKey, loadThrows)

\* requestNativeThreadTitleRename, and the job it starts up to the job's first
\* await. loadThrows: loadSessionStore throws in findAppliedThreadTitleInStore.
\* A request that returns at once leaves everything as it is.
Request(j, sessionKey, threadRef, primaryText, fallbackText, loadThrows) ==
  /\ jobs[j].pc = "idle"
  /\ LET threadKey == buildNativeThreadKey(threadRef)
         persisted == PersistedAppliedTitle(sessionStore, threadKey, loadThrows)
         job == [pc |-> "ai", threadKey |-> threadKey, sessionKey |-> sessionKey,
                 title |-> NoText, attempts |-> NoNumber]
     IN IF RequestReturnsAtOnce(threadKey)
        THEN UNCHANGED managerVars
        ELSE
          /\ inFlightRenames' = inFlightRenames \cup {threadKey}
          /\ UNCHANGED <<sessionStore, aiTitleDisabledUntil>>
          /\ IF persisted # NoText
             THEN /\ appliedThreadTitles' =
                       rememberAppliedThreadTitleWithTitle(appliedThreadTitles, threadKey, persisted)
                  /\ jobs' = [jobs EXCEPT ![j] = Settled(job)]
             ELSE /\ UNCHANGED appliedThreadTitles
                  /\ jobs' = [jobs EXCEPT ![j] =
                        IF \/ AiTitleDisabled(now)
                           \/ PromptSeeds[primaryText, fallbackText] = NoText
                        THEN Settled(job)
                        ELSE job]
  /\ UNCHANGED <<now, ev, applyVars, llm>>

\* The same for a manager that applies no title without a session: C39 tells
\* them apart.
AfterAttemptNeedsSession(job, aiTitle, shouldApply, attempts) ==
  IF shouldApply /\ job.sessionKey # "undefined"
  THEN [job EXCEPT !.pc = "applyTitle", !.title = aiTitle, !.attempts = attempts]
  ELSE [IdleJob EXCEPT !.pc = "settled", !.threadKey = job.threadKey]

\* What the job does when maybeGenerateAiThreadTitle has settled with aiTitle
\* (NoText: with undefined) and, with a title, markRenameAttempt has run:
\* the job is over, or it called applyTitle.
AfterAttempt(job, aiTitle, shouldApply, attempts) ==
  IF shouldApply
  THEN [job EXCEPT !.pc = "applyTitle", !.title = aiTitle, !.attempts = attempts]
  ELSE Settled(job)

\* maybeGenerateAiThreadTitle settles and the job goes on to applyTitle:
\* the title model throws, or its answer is sanitized to aiTitle (NoText: to
\* nothing). Then markRenameAttempt: updateThrows says that
\* updateSessionStoreEntry rejects. Date.now() is read when the update runs.
AiSettles(j, aiThrows, aiTitle, updateThrows) ==
  /\ jobs[j].pc = "ai"
  /\ LET job == jobs[j]
         threadKey == job.threadKey
         state == sessionStore[job.sessionKey]
         updated == MarkAttemptUpdate(state, threadKey, aiTitle, now)
     IN IF aiThrows
        THEN /\ aiTitleDisabledUntil' = now + AI_FAILURE_BACKOFF_MS
             /\ jobs' = [jobs EXCEPT ![j] = Settled(job)]
             /\ UNCHANGED sessionStore
        ELSE IF aiTitle = NoText \/ AppliedCacheHas(appliedThreadTitles, threadKey)
        THEN /\ jobs' = [jobs EXCEPT ![j] = Settled(job)]
             /\ UNCHANGED <<sessionStore, aiTitleDisabledUntil>>
        ELSE IF job.sessionKey = "undefined"
        THEN /\ jobs' = [jobs EXCEPT ![j] = AfterAttempt(job, aiTitle, TRUE, 1)]
             /\ UNCHANGED <<sessionStore, aiTitleDisabledUntil>>
        ELSE IF updateThrows
        THEN /\ jobs' = [jobs EXCEPT ![j] = Settled(job)]
             /\ UNCHANGED <<sessionStore, aiTitleDisabledUntil>>
        ELSE /\ updated.attempts <= MaxAttempts
             /\ sessionStore' = [sessionStore EXCEPT ![job.sessionKey] = updated]
             /\ jobs' = [jobs EXCEPT ![j] =
                   AfterAttempt(job, aiTitle, ShouldApply(updated, threadKey),
                                Nullish(updated.attempts, 1))]
             /\ UNCHANGED aiTitleDisabledUntil
  /\ UNCHANGED <<now, ev, applyVars, lastParams, llm, inFlightRenames, appliedThreadTitles>>

\* params.applyTitle settles and the job runs to its end: applyTitle
\* resolves, or rejects with error; storeError is what
\* updateSessionStoreEntry throws when it does.
ApplyTitleSettles(j, rejected, error, storeOutcome, storeError) ==
  /\ jobs[j].pc = "applyTitle"
  /\ LET job == jobs[j]
         threadKey == job.threadKey
         state == sessionStore[job.sessionKey]
         \* the errorClass of the markRenameResult whose update is carried out
         errorClass == IF rejected THEN classifyRenameError(error)
                       ELSE IF storeOutcome = "throws_once"
                       THEN classifyRenameError(storeError)
                       ELSE "undefined"
         \* whether an update of markRenameResult is carried out
         updates == /\ job.sessionKey # "undefined"
                    /\ \/ storeOutcome = "ok"
                       \/ ~rejected /\ storeOutcome = "throws_once"
     IN /\ appliedThreadTitles' =
             IF rejected THEN appliedThreadTitles
             ELSE rememberAppliedThreadTitleWithTitle(appliedThreadTitles, threadKey, job.title)
        /\ sessionStore' =
             IF updates
             THEN [sessionStore EXCEPT ![job.sessionKey] =
                     MarkResultUpdate(state, threadKey, job.title, job.attempts, errorClass, now)]
             ELSE sessionStore
        /\ jobs' = [jobs EXCEPT ![j] = Settled(job)]
  /\ UNCHANGED <<now, ev, applyVars, lastParams, llm, inFlightRenames, aiTitleDisabledUntil>>

\* A finally callback that leaves inFlightRenames as it is: C27 tells them
\* apart.
JobCleanupKeepsKey(j) ==
  /\ jobs[j].pc = "settled"
  /\ jobs' = [jobs EXCEPT ![j] = IdleJob]
  /\ UNCHANGED <<now, ev, applyVars, lastParams, llm, sessionStore, inFlightRenames,
                 appliedThreadTitles, aiTitleDisabledUntil>>

\* The job's finally callback.
JobCleanup(j) ==
  /\ jobs[j].pc = "settled"
  /\ inFlightRenames' = inFlightRenames \ {jobs[j].threadKey}
  /\ jobs' = [jobs EXCEPT ![j] = IdleJob]
  /\ UNCHANGED <<now, ev, applyVars, lastParams, llm, sessionStore, appliedThreadTitles, aiTitleDisabledUntil>>

\* The process ends and starts again: the module state is new, the jobs are
\* gone, the session store is what was persisted.
Restart ==
  /\ \/ inFlightRenames # {}
     \/ appliedThreadTitles # <<>>
     \/ aiTitleDisabledUntil # 0
  /\ inFlightRenames' = {}
  /\ appliedThreadTitles' = <<>>
  /\ aiTitleDisabledUntil' = 0
  /\ jobs' = [j \in Jobs |-> IdleJob]
  /\ UNCHANGED <<now, ev, applyVars, lastParams, llm, sessionStore>>

\* The jobs are interchangeable: a new job takes the first free slot.
FirstIdleJob(j) ==
  /\ jobs[j].pc = "idle"
  /\ \A k \in Jobs : k < j => jobs[k].pc # "idle"

RequestAny ==
  \E j \in {k \in Jobs : FirstIdleJob(k)}, sessionKey \in {SessionOrder[1], "undefined"},
     threadRef \in ThreadRefs, primaryText \in {TextStatus, TextFix},
     fallbackText \in FallbackTexts, loadThrows \in BOOLEAN :
    /\ Request(j, sessionKey, threadRef, primaryText, fallbackText, loadThrows)
    /\ UNCHANGED lastParams

AiSettlesAny ==
  \E j \in Jobs, aiThrows \in BOOLEAN, aiTitle \in AiTitles \cup {NoText},
     updateThrows \in BOOLEAN :
    AiSettles(j, aiThrows, aiTitle, updateThrows)

\* How the store updates of markRenameResult end: the update is done; it
\* throws once (a throw after a successful applyTitle is caught, classified
\* and recorded by a second markRenameResult); or every update throws.
ApplyTitleSettlesAny ==
  \E j \in Jobs, rejected \in BOOLEAN, storeOutcome \in {"ok", "throws_once", "throws"} :
    \E error \in IF rejected THEN RenameErrors ELSE {{}},
       storeError \in IF ~rejected /\ storeOutcome = "throws_once" THEN RenameErrors ELSE {{}} :
      ApplyTitleSettles(j, rejected, error, storeOutcome, storeError)

JobCleanupAny == \E j \in Jobs : JobCleanup(j)

\* A request through either session, or through none, with a message the
\* title model is asked about. lastParams is the request as its caller sees
\* it: its arguments, and whether it started a job.
SessionRequestAny ==
  \E j \in {k \in Jobs : FirstIdleJob(k)}, sessionKey \in SessionKeys \cup {"undefined"},
     threadRef \in ThreadRefs, loadThrows \in BOOLEAN :
    /\ Request(j, sessionKey, threadRef, TextFix, NoText, loadThrows)
    /\ lastParams' = [op |-> "request", sessionKey |-> sessionKey,
                      threadKey |-> buildNativeThreadKey(threadRef),
                      loadThrows |-> loadThrows,
                      startedJob |-> ~RequestReturnsAtOnce(buildNativeThreadKey(threadRef))]

\* The title model answers with a title and the attempt is recorded.
SessionAiSettlesAny ==
  \E j \in Jobs : AiSettles(j, FALSE, <<"F","i","x"," ","B","u","g">>, FALSE)

\* applyTitle resolves, or rejects with a rate-limit error; the result is
\* recorded.
SessionApplyTitleSettlesAny ==
  \E j \in Jobs, rejected \in BOOLEAN :
    ApplyTitleSettles(j, rejected, IF rejected THEN {"RATE_LIMIT_RE"} ELSE {}, "ok", {})

\* ------------------------------------------------------------------ clock
\* Time passes for the applyThreadTitle calls: one tick.
Tick ==
  /\ now + TickMs <= StartMs + MaxTicks * TickMs
  /\ now' = now + TickMs
  /\ ev' = Event("tick", 0, "undefined", {}, NoResult)
  /\ UNCHANGED <<applyVars, managerVars, lastParams, llm>>

\* The instants the manager's clock reads, as ticks after the start: within
\* and past the pending lease, past the rate-limit delay, past the backoff of
\* the title model.
ManagerTick ==
  /\ LET ManagerInstants == {0, 1, 22}
     IN \E n \in ManagerInstants :
          /\ StartMs + n * TickMs > now
          /\ \A m \in ManagerInstants : StartMs + m * TickMs > now => n <= m
          /\ now' = StartMs + n * TickMs
  /\ UNCHANGED <<ev, applyVars, managerVars, lastParams, llm>>

\* ----------------------------------------------------------- specifications
vars ==
  <<now, stateStore, calls, ev, sessionStore, inFlightRenames, appliedThreadTitles,
    aiTitleDisabledUntil, jobs, lastParams, llm>>

Init ==
  /\ now = StartMs
  /\ stateStore = <<>>
  /\ calls = [c \in Calls |-> IdleCall]
  /\ ev = Event("none", 0, "undefined", {}, NoResult)
  /\ sessionStore = [k \in SessionKeys |-> UndefinedState]
  /\ inFlightRenames = {}
  /\ appliedThreadTitles = <<>>
  /\ aiTitleDisabledUntil = 0
  /\ jobs = [j \in Jobs |-> IdleJob]
  /\ lastParams = NoParams
  /\ llm = IdleLlm

\* applyThreadTitle calls on one state store.
Next ==
  \/ ApplyStartAny
  \/ ApplyCurrentTitleSettlesAny
  \/ ApplySetTitleSettlesAny
  \/ Tick

Spec == Init /\ [][Next]_vars

\* applyThreadTitle calls whose params carry isFirstMessage, strategy and
\* generateLlmTitle.
OptionsNext ==
  \/ ApplyStartWithOptionsAny
  \/ ApplyCurrentTitleSettlesAny
  \/ ApplySetTitleSettlesAny
  \/ Tick

OptionsSpec == Init /\ [][OptionsNext]_vars

\* requestNativeThreadTitleRename jobs on one session store.
ManagerNext ==
  \/ RequestAny
  \/ AiSettlesAny
  \/ ApplyTitleSettlesAny
  \/ JobCleanupAny
  \/ Restart
  \/ ManagerTick

ManagerSpec == Init /\ [][ManagerNext]_vars

\* The same where every awaited call of a job settles in the end (the title
\* model, the store updates, applyTitle) and the finally callback of a
\* settled promise is run. A job awaits the title model exactly while the
\* title model can throw, and applyTitle exactly while applyTitle can be
\* rejected with the store throwing: weak fairness of these two steps says
\* that the job does not await for ever, whichever way the call settles.
FairManagerSpec ==
  /\ Init /\ [][ManagerNext]_vars
  /\ \A j \in Jobs :
       /\ WF_vars(AiSettles(j, TRUE, NoText, FALSE))
       /\ WF_vars(ApplyTitleSettles(j, TRUE, {}, "throws", {}))
       /\ WF_vars(JobCleanup(j))

\* requestNativeThreadTitleRename jobs of several sessions on one session
\* store, at one instant.
SessionsNext ==
  \/ SessionRequestAny
  \/ SessionAiSettlesAny
  \/ SessionApplyTitleSettlesAny
  \/ JobCleanupAny
  \/ Restart

SessionsSpec == Init /\ [][SessionsNext]_vars

\* applyThreadTitle calls on one state store, or jobs of
\* requestNativeThreadTitleRename on one session store. The two modules keep
\* their state apart and neither calls the other, so a behaviour is one of
\* the calls or one of the jobs: the jobs leave ev as it is, and every step
\* of a call writes it.
EitherNext ==
  \/ /\ \/ ev.op # "none"
        \/ /\ now = StartMs
           /\ sessionStore = [k \in SessionKeys |-> UndefinedState]
           /\ inFlightRenames = {}
           /\ appliedThreadTitles = <<>>
           /\ aiTitleDisabledUntil = 0
           /\ jobs = [j \in Jobs |-> IdleJob]
     /\ Next
  \/ /\ ev.op = "none"
     /\ ManagerNext

EitherSpec == Init /\ [][EitherNext]_vars

\* ------------------------------------------------------ thread-title-llm
DEFAULT_TIMEOUT_MS == 3000

Google == <<"g","o","o","g","l","e">>
Anthropic == <<"a","n","t","h","r","o","p","i","c">>
SUPPORTED_PROVIDERS == {Google, Anthropic}

\* normalizeThreadTitleModelRef(raw); NoText where it returns undefined.
normalizeThreadTitleModelRef(raw) ==
  LET trimmed == Trim(raw)
      lower == ToLower(trimmed)
  IN IF trimmed = <<>> THEN NoText
     ELSE IF Includes(trimmed, <<"/">>) THEN trimmed
     ELSE IF Includes(lower, <<"g","e","m","i","n","i">>) THEN Google \o <<"/">> \o trimmed
     ELSE IF Includes(lower, <<"c","l","a","u","d","e">>) THEN Anthropic \o <<"/">> \o trimmed
     ELSE trimmed

NoRef == [provider |-> NoText, model |-> NoText]

\* parseModelRef(raw, defaultProvider) of ../agents/model-selection.js: the
\* text before the first "/" is the provider, in lower case, and the rest the
\* model; without a "/" the provider is defaultProvider; NoRef (null) when a
\* part is empty.
parseModelRef(raw, defaultProvider) ==
  LET trimmed == Trim(raw)
      slash == IndexOf(trimmed, "/")
      provider == IF slash = 0 THEN defaultProvider
                  ELSE ToLower(Trim(SubSeq(trimmed, 1, slash - 1)))
      model == IF slash = 0 THEN trimmed
               ELSE Trim(SubSeq(trimmed, slash + 1, Len(trimmed)))
  IN IF provider = <<>> \/ model = <<>> THEN NoRef
     ELSE [provider |-> provider, model |-> model]

\* A value that is a string with something but white space in it.
IsSetValue(value) == Len(Trim(value)) > 0

\* resolveThreadTitleEnvValue(cfg, env, key): the config first
\* (resolveConfigEnvVar: cfg.env.vars[key], then cfg.env[key]), then the
\* process environment.
resolveThreadTitleEnvValue(cfg, env, key) ==
  LET fromConfig == IF IsSetValue(cfg.vars[key]) THEN cfg.vars[key]
                    ELSE IF IsSetValue(cfg.sugar[key]) THEN cfg.sugar[key]
                    ELSE NoText
  IN IF fromConfig # NoText THEN fromConfig
     ELSE IF IsSetValue(env[key]) THEN env[key] ELSE NoText

\* The first line of raw that has something but white space in it, trimmed:
\* raw.split(/\r?\n/).map(trim).find(length > 0).
RECURSIVE FirstLine(_)
FirstLine(raw) ==
  LET newline == IndexOf(raw, "\n")
  IN IF newline = 0 THEN Trim(raw)
     ELSE LET line == Trim(SubSeq(raw, 1, newline - 1))
          IN IF line # <<>> THEN line
             ELSE FirstLine(SubSeq(raw, newline + 1, Len(raw)))

\* The back quote, which a TLA+ string cannot hold, is written as a character
\* the texts do not use otherwise.
BackQuote == "^"
QuoteChars == {"\"", "'", BackQuote}

\* .replace(/^#+\s*/, "")
RECURSIVE StripHeading(_)
StripHeading(s) ==
  IF s # <<>> /\ Head(s) = "#"
  THEN IF Tail(s) # <<>> /\ Head(Tail(s)) = "#"
       THEN StripHeading(Tail(s))
       ELSE TrimStart(Tail(s))
  ELSE s

\* Leading and trailing runs of quote characters are removed.
RECURSIVE DropLeadingQuotes(_)
DropLeadingQuotes(s) ==
  IF s # <<>> /\ Head(s) \in QuoteChars THEN DropLeadingQuotes(Tail(s)) ELSE s

RECURSIVE DropTrailingQuotes(_)
DropTrailingQuotes(s) ==
  IF s # <<>> /\ s[Len(s)] \in QuoteChars
  THEN DropTrailingQuotes(SubSeq(s, 1, Len(s) - 1))
  ELSE s

\* sanitizeLlmTitleCandidate(raw); NoText where it returns undefined.
sanitizeLlmTitleCandidate(raw) ==
  LET firstLine == FirstLine(raw)
  IN IF firstLine = <<>> THEN NoText
     ELSE Trim(CollapseWhitespace(
            DropTrailingQuotes(DropLeadingQuotes(StripHeading(firstLine)))))

\* fetchGoogleTitle: the text, trimmed, or undefined, or a throw.
fetchGoogleTitle(outcome, rawText) ==
  IF outcome = "not_ok" THEN [kind |-> "returns", text |-> NoText]
  ELSE IF outcome = "ok" THEN [kind |-> "returns", text |-> Trim(rawText)]
  ELSE [kind |-> "throws", text |-> NoText]

\* fetchAnthropicTitle: the same on another endpoint.
fetchAnthropicTitle(outcome, rawText) ==
  IF outcome = "not_ok" THEN [kind |-> "returns", text |-> NoText]
  ELSE IF outcome = "ok" THEN [kind |-> "returns", text |-> Trim(rawText)]
  ELSE [kind |-> "throws", text |-> NoText]

Resolved(title) == [kind |-> "resolved", title |-> title]

LlmTryUncaught(provider, outcome, rawText) ==
  LET fetched == IF provider = Google
                 THEN fetchGoogleTitle(outcome, rawText)
                 ELSE fetchAnthropicTitle(outcome, rawText)
  IN IF fetched.kind = "throws" THEN [kind |-> "rejected", title |-> NoText]
     ELSE IF fetched.text = NoText THEN Resolved(NoText)
     ELSE Resolved(sanitizeLlmTitleCandidate(fetched.text))

\* The try and catch of generateThreadTitleViaLLM: what the promise settles
\* with.
LlmTryCatch(provider, outcome, rawText) ==
  LET fetched == IF provider = Google
                 THEN fetchGoogleTitle(outcome, rawText)
                 ELSE fetchAnthropicTitle(outcome, rawText)
  IN IF fetched.kind = "throws" THEN Resolved(NoText)
     ELSE IF fetched.text = NoText THEN Resolved(NoText)
     ELSE Resolved(sanitizeLlmTitleCandidate(fetched.text))

\* params.modelRef, then the default model of the config, normalized.
ConfiguredModelRef(modelRef, defaultModelRef) ==
  IF normalizeThreadTitleModelRef(modelRef) # NoText
  THEN normalizeThreadTitleModelRef(modelRef)
  ELSE normalizeThreadTitleModelRef(defaultModelRef)

\* The API key of a provider of the allow-list.
\* resolveGoogleApiKey reads GEMINI_API_KEY, then GOOGLE_API_KEY;
\* resolveAnthropicApiKey reads ANTHROPIC_API_KEY.
ApiKeyOf(provider, cfg, env) ==
  LET gemini == resolveThreadTitleEnvValue(cfg, env, "GEMINI_API_KEY")
  IN IF provider = Google
     THEN IF gemini # NoText THEN gemini
          ELSE resolveThreadTitleEnvValue(cfg, env, "GOOGLE_API_KEY")
     ELSE resolveThreadTitleEnvValue(cfg, env, "ANTHROPIC_API_KEY")

LlmSkipsWithoutKeyCheck(params) ==
  LET configuredModelRef == ConfiguredModelRef(params.modelRef, params.defaultModelRef)
      parsedRef == parseModelRef(configuredModelRef, Anthropic)
  IN IF Trim(params.primaryText) = <<>> /\ Trim(params.fallbackText) = <<>>
     THEN "blank_texts"
     ELSE IF configuredModelRef = NoText THEN "no_model_ref"
     ELSE IF parsedRef = NoRef \/ parsedRef.provider \notin SUPPORTED_PROVIDERS
     THEN "unsupported_provider"
     ELSE "none"

\* The early returns of generateThreadTitleViaLLM; "none": it goes on to
\* the request.
LlmSkips(params) ==
  LET configuredModelRef == ConfiguredModelRef(params.modelRef, params.defaultModelRef)
      parsedRef == parseModelRef(configuredModelRef, Anthropic)
  IN IF Trim(params.primaryText) = <<>> /\ Trim(params.fallbackText) = <<>>
     THEN "blank_texts"
     ELSE IF configuredModelRef = NoText THEN "no_model_ref"
     ELSE IF parsedRef = NoRef \/ parsedRef.provider \notin SUPPORTED_PROVIDERS
     THEN "unsupported_provider"
     ELSE IF ApiKeyOf(parsedRef.provider, params.cfgEnv, params.processEnv) = NoText
     THEN "no_api_key"
     ELSE "none"

\* generateThreadTitleViaLLM up to its await: an early return, or the timer
\* armed and the request sent. The calls share no state (each has its own
\* controller and timer), so one call is followed.
LlmStart(params) ==
  /\ llm.pc = "idle"
  /\ lastParams' = params
  /\ IF LlmSkips(params) # "none"
     THEN llm' = [IdleLlm EXCEPT !.pc = "done", !.result = Resolved(NoText)]
     ELSE LET parsedRef ==
                parseModelRef(ConfiguredModelRef(params.modelRef, params.defaultModelRef),
                              Anthropic)
          IN llm' = [IdleLlm EXCEPT
                       !.pc = "fetching",
                       !.provider = parsedRef.provider,
                       !.model = parsedRef.model,
                       !.apiKey = ApiKeyOf(parsedRef.provider, params.cfgEnv, params.processEnv),
                       !.timer = "armed",
                       !.timerAt = now + Nullish(params.timeoutMs, DEFAULT_TIMEOUT_MS),
                       !.fetches = 1]
  /\ UNCHANGED <<now, ev, applyVars, managerVars>>

\* The timeout: controller.abort().
LlmTimerFires ==
  /\ llm.pc = "fetching"
  /\ llm.timer = "armed"
  /\ now >= llm.timerAt
  /\ llm' = [llm EXCEPT !.timer = "fired", !.aborted = TRUE]
  /\ UNCHANGED <<now, ev, applyVars, managerVars, lastParams>>

\* The request settles: try, catch and finally.
LlmFetchSettles(outcome, rawText) ==
  /\ llm.pc = "fetching"
  /\ outcome = "abort" => llm.aborted
  /\ llm' = [llm EXCEPT !.pc = "done",
                        !.outcome = outcome,
                        !.result = LlmTryCatch(llm.provider, outcome, rawText),
                        !.timer = "cleared"]
  /\ UNCHANGED <<now, ev, applyVars, managerVars, lastParams>>

\* A text of white space.
TextBlank == <<" ", " ">>

\* Model references: short names, which normalizeThreadTitleModelRef
\* completes or leaves, and provider/model pairs.
RefGemini == <<"G","e","m","i","n","i","-","f","l","a","s","h">>
RefClaude == <<" ","c","l","a","u","d","e","-","h","a","i","k","u">>
RefOpenAi == <<"o","p","e","n","a","i","/","g","p","t","-","4","o">>
ApiKey == <<"k","e","y">>

\* An environment in which name has the value and no other key is set; with
\* NoText, one in which no key is set.
OnlyKey(name, value) ==
  [key \in {"GEMINI_API_KEY", "GOOGLE_API_KEY", "ANTHROPIC_API_KEY"} |->
     IF key = name THEN value ELSE NoText]

\* A call: CfgEnvs are values of cfg.env (vars, and the keys set on env
\* itself), ProcessEnvs values of process.env; params.timeoutMs is left out
\* (NoNumber) or 40 seconds.
LlmStartAny ==
  LET ModelRefs ==
        { NoText, TextBlank, RefGemini, RefClaude, RefOpenAi,
          <<"g","o","o","g","l","e","/","g","e","m","i","n","i","-","p","r","o">>,
          <<"g","p","t","-","4","o">> }
      CfgEnvs ==
        { [vars |-> OnlyKey("GEMINI_API_KEY", NoText),
           sugar |-> OnlyKey("GEMINI_API_KEY", NoText)],
          [vars |-> OnlyKey("GEMINI_API_KEY", TextBlank),
           sugar |-> OnlyKey("ANTHROPIC_API_KEY", ApiKey)],
          [vars |-> OnlyKey("GEMINI_API_KEY", ApiKey),
           sugar |-> OnlyKey("GEMINI_API_KEY", NoText)] }
      ProcessEnvs ==
        { OnlyKey("GEMINI_API_KEY", NoText), OnlyKey("GOOGLE_API_KEY", ApiKey),
          OnlyKey("ANTHROPIC_API_KEY", TextBlank) }
  IN \E primaryText \in {NoText, TextBlank, TextFix}, fallbackText \in {NoText, TextFix},
        modelRef \in ModelRefs, defaultModelRef \in {NoText, RefClaude, RefOpenAi},
        cfgEnv \in CfgEnvs, processEnv \in ProcessEnvs, timeoutMs \in {NoNumber, 40000} :
       LlmStart([op |-> "llm", primaryText |-> primaryText, fallbackText |-> fallbackText,
                 modelRef |-> modelRef, defaultModelRef |-> defaultModelRef,
                 cfgEnv |-> cfgEnv, processEnv |-> processEnv, timeoutMs |-> timeoutMs])

\* The request settles. What it may do: answer with a body that parses,
\* answer with a status that is not OK, fail on the network, answer with a
\* body that does not parse, and be aborted. RawTexts: the text of the first
\* candidate of an answer; NoText: none.
LlmFetchSettlesAny ==
  LET RawTexts ==
        { NoText,
          <<" ", "\n">>,
          <<"#", " ", BackQuote, BackQuote>>,
          <<"\n", "#", "#", " ", "\"", "F", "i", "x", " ", " ", "B", "u", "g", "\"", " ",
            "\n", "m", "o", "r", "e">> }
  IN \E outcome \in {"ok", "not_ok", "network_error", "bad_json", "abort"},
        rawText \in RawTexts :
       LlmFetchSettles(outcome, rawText)

LlmNext ==
  \/ LlmStartAny
  \/ LlmTimerFires
  \/ LlmFetchSettlesAny
  \/ Tick

LlmSpec == Init /\ [][LlmNext]_vars

\* applyThreadTitle calls with the provider of
\* createTelegramThreadTitleProvider, which has resolveThreadKey and no
\* getCurrentTitle; lastParams keeps the target of the last call. The chat
\* ids are trimmed, padded, blank and absent; the topic ids are absent, NaN,
\* numbers (271, 2.9, 1.9, 1, 0, -3) and strings.
TelegramApplyStartAny ==
  LET Id(type, tenths, text) == [type |-> type, tenths |-> tenths, text |-> text]
      Target(conversationId, threadId) ==
        [channel |-> "telegram", conversationId |-> conversationId, threadId |-> threadId]
      chat == <<"-","1","0","0","1","2","3">>
      TelegramTargets ==
        { Target(chat, threadId) :
            threadId \in { Id("undefined", 0, NoText), Id("nan", 0, NoText),
                           Id("number", 2710, NoText), Id("number", 29, NoText),
                           Id("number", 19, NoText), Id("number", 10, NoText),
                           Id("number", 0, NoText), Id("number", 0 - 30, NoText),
                           Id("string", 0, <<"2","7","1">>), Id("string", 0, <<" ","2"," ">>),
                           Id("string", 0, <<"2",".","7">>), Id("string", 0, <<"1">>),
                           Id("string", 0, NoText), Id("string", 0, <<"a","b","c">>),
                           Id("string", 0, <<"2","x">>) } }
        \cup { Target(conversationId, Id("number", 2710, NoText)) :
                 conversationId \in {NoText, TextBlank, <<" ","-","1","0","0","1","2","3"," ">>} }
  IN \E c \in {d \in Calls : FirstIdleCall(d)}, target \in TelegramTargets,
        primaryText \in {TextPlan} :
       /\ ApplyStart(c, [channel |-> "telegram", hasGetCurrentTitle |-> FALSE,
                         resolveThreadKey |-> TRUE],
                     target, primaryText, NoText, 80)
       /\ lastParams' = [op |-> "applyThreadTitle", target |-> target]

\* applyThreadTitle calls with the provider of
\* createSlackThreadTitleProvider, which has resolveThreadKey and no
\* getCurrentTitle. The channel ids and the thread timestamps are padded,
\* blank and absent.
SlackApplyStartAny ==
  LET SlackTargets ==
        { [channel |-> "slack", conversationId |-> conversationId, threadId |-> threadId] :
            conversationId \in {<<" ","C","1"," ">>, TextBlank, NoText},
            threadId \in {<<" ","1",".","5"," ">>, TextBlank, NoText} }
  IN \E c \in {d \in Calls : FirstIdleCall(d)}, target \in SlackTargets,
        primaryText \in {TextPlan, TextStatus} :
       /\ ApplyStart(c, [channel |-> "slack", hasGetCurrentTitle |-> FALSE,
                         resolveThreadKey |-> TRUE],
                     target, primaryText, NoText, 80)
       /\ lastParams' = [op |-> "applyThreadTitle", target |-> target]

\* setTitle of the adapter settles: the platform call
\* (renameForumTopicTelegram, assistant.threads.setTitle) resolves, or
\* rejects with an error that the adapter's classifyError gives errorClass.
TelegramSetTitleSettlesAny ==
  \E c \in Calls, rejects \in BOOLEAN, errorClass \in {"permission", "not_found"} :
    ApplySetTitleSettles(c, rejects, errorClass, NoNumber)

TelegramNext ==
  \/ TelegramApplyStartAny
  \/ TelegramSetTitleSettlesAny

TelegramSpec == Init /\ [][TelegramNext]_vars

\* Calls with either adapter on the one default store.
AdaptersNext ==
  \/ TelegramNext
  \/ SlackApplyStartAny

AdaptersSpec == Init /\ [][AdaptersNext]_vars

\* ---------------------------------------------- settings of the title model
\* Number.parseInt(text, 10): white space, a sign, digits, and whatever
\* follows is ignored; NaN without a digit there.
parseInt(text) ==
  LET t == TrimStart(text)
      signed == t # <<>> /\ Head(t) \in {"-", "+"}
      digits == IF signed THEN Tail(t) ELSE t
      value == DigitsPrefixValue(digits, 0)
  IN IF digits = <<>> \/ Head(digits) \notin Digits
     THEN [nan |-> TRUE, value |-> 0]
     ELSE [nan |-> FALSE, value |-> IF signed /\ Head(t) = "-" THEN 0 - value ELSE value]

TimeoutMsUnclamped(timeoutRaw) ==
  IF ~timeoutRaw.nan /\ timeoutRaw.value > 0
  THEN timeoutRaw.value
  ELSE DEFAULT_TIMEOUT_MS

\* timeoutMs of resolveThreadTitleLlmSettings.
TimeoutMsOf(timeoutRaw) ==
  IF ~timeoutRaw.nan /\ timeoutRaw.value > 0
  THEN Min(60000, Max(1, timeoutRaw.value))
  ELSE DEFAULT_TIMEOUT_MS

\* resolveThreadTitleLlmSettings(cfg, env). A cfg that is undefined reads as
\* one in which no variable is set.
resolveThreadTitleLlmSettings(cfg, env) ==
  LET allowOverwriteRaw ==
        ToLower(Trim(resolveThreadTitleEnvValue(cfg, env, "OPENCLAW_THREAD_TITLE_OVERWRITE_EXISTING")))
      \* normalizeStrategy(raw)
      strategyValue ==
        ToLower(Trim(resolveThreadTitleEnvValue(cfg, env, "OPENCLAW_THREAD_TITLE_STRATEGY")))
  IN [strategy |->
        IF strategyValue = <<"l","l","m">> THEN "llm"
        ELSE IF strategyValue = <<"h","y","b","r","i","d">> THEN "hybrid"
        ELSE "deterministic",
      modelRef |->
        normalizeThreadTitleModelRef(
          resolveThreadTitleEnvValue(cfg, env, "OPENCLAW_THREAD_TITLE_MODEL")),
      timeoutMs |->
        TimeoutMsOf(parseInt(
          resolveThreadTitleEnvValue(cfg, env, "OPENCLAW_THREAD_TITLE_TIMEOUT_MS"))),
      allowOverwriteCurrentTitle |->
        allowOverwriteRaw \in {<<"1">>, <<"t","r","u","e">>, <<"y","e","s">>}]

\* The variables of the settings with these values, the timeout apart.
SettingsEnv(timeout, strategy, model, overwrite) ==
  [key \in {"OPENCLAW_THREAD_TITLE_STRATEGY", "OPENCLAW_THREAD_TITLE_MODEL",
            "OPENCLAW_THREAD_TITLE_TIMEOUT_MS", "OPENCLAW_THREAD_TITLE_OVERWRITE_EXISTING"} |->
     IF key = "OPENCLAW_THREAD_TITLE_TIMEOUT_MS" THEN timeout
     ELSE IF key = "OPENCLAW_THREAD_TITLE_STRATEGY" THEN strategy
     ELSE IF key = "OPENCLAW_THREAD_TITLE_MODEL" THEN model
     ELSE overwrite]

\* A call of resolveThreadTitleLlmSettings: the timeout in cfg.env.vars and
\* in the process environment, the other variables in the process
\* environment. The function keeps no state, so one call is followed. The
\* values of OPENCLAW_THREAD_TITLE_TIMEOUT_MS: not set, blank, no number, a
\* number followed by a unit, zero, negative, and numbers below, at and
\* above the range.
ResolveSettingsAny ==
  /\ lastParams = NoParams
  /\ LET TimeoutTexts ==
           { NoText, TextBlank, <<"a","b","c">>, <<"9","0","m","s">>, <<"0">>, <<"-","5">>,
             <<"1">>, <<" ","9","0","0","0">>, <<"6","0","0","0","0">>,
             <<"6","0","0","0","1">>, <<"9","9","9","9","9","9","9">> }
     IN \E cfgTimeout \in TimeoutTexts, envTimeout \in TimeoutTexts,
        strategy \in {NoText, <<" ","L","L","M">>}, model \in {NoText, RefGemini},
        overwrite \in {NoText, <<"Y","e","s">>} :
       LET cfg == [vars |-> SettingsEnv(cfgTimeout, NoText, NoText, NoText),
                   sugar |-> SettingsEnv(NoText, NoText, NoText, NoText)]
           env == SettingsEnv(envTimeout, strategy, model, overwrite)
       IN lastParams' = [op |-> "resolveThreadTitleLlmSettings",
                         cfgTimeout |-> cfgTimeout, envTimeout |-> envTimeout,
                         result |-> resolveThreadTitleLlmSettings(cfg, env)]
  /\ UNCHANGED <<now, ev, applyVars, managerVars, llm>>

\* Texts with placeholder tokens: a request with a file, files only, a
\* media placeholder, a sticker with a caption, and a slash command with an
\* argument; and a text that ends with punctuation marks set apart by
\* blanks.
TitleTexts ==
  [ review |-> <<"P","l","e","a","s","e"," ","r","e","v","i","e","w"," ","[","S","l","a","c","k"," ","f","i","l","e",":"," ","r","e","p","o","r","t",".","p","d","f","]">>,
    files |-> <<"[","S","l","a","c","k"," ","f","i","l","e",":"," ","a",".","p","d","f","]"," ","[","S","l","a","c","k"," ","f","i","l","e",":"," ","b",".","p","n","g","]">>,
    media |-> <<"<","m","e","d","i","a",":","i","m","a","g","e",">"," ","(","2"," ","M","B",")">>,
    sticker |-> <<"[","S","t","i","c","k","e","r"," ","w","a","v","e","]"," ","s","e","e"," ","y","o","u">>,
    slash |-> <<"/","t"," ","h","i","g","h">>,
    dots |-> <<"D","o","n","e","."," ","."," ",".">> ]

\* A call of deriveConversationTitle, of either revision of
\* conversation-title. The function keeps no state, so one call is followed.
DeriveTitleAny ==
  /\ lastParams = NoParams
  /\ \E primaryText \in PrimaryTexts \cup {NoText} \cup {TitleTexts[n] : n \in DOMAIN TitleTexts},
        fallbackText \in {NoText, TextFix, TitleTexts.review},
        maxChars \in {80, 6, 2}, withNames \in BOOLEAN :
       lastParams' = [op |-> "deriveConversationTitle",
                      primaryText |-> primaryText, fallbackText |-> fallbackText,
                      maxChars |-> maxChars, withNames |-> withNames,
                      result |-> deriveConversationTitle(primaryText, fallbackText,
                                                         maxChars, withNames)]
  /\ UNCHANGED <<now, ev, applyVars, managerVars, llm>>

\* Calls of the functions that keep no state.
\* ------------------------------------------------- adapters of the platforms
\* An error value is the record of what the adapters read of it: what it is
\* when it is a string (text), and its properties data.error, data.needed,
\* code, message and description, each with defined telling that it is a
\* string and value the string.

\* classifySlackTitleError(error), with the checks in the order of the
\* source when inOrder, and with the rate limit looked at first otherwise.
\* The candidates are data.error, data.needed, code, message and the error
\* itself, those that are non-empty strings, in lower case.
ClassifySlack(error, inOrder) ==
  LET candidates ==
        { ToLower(c.value) :
            c \in { c \in {error.dataError, error.dataNeeded, error.code, error.message,
                           error.text} : c.defined /\ c.value # NoText } }
      has(tokens) == \E candidate \in candidates, token \in tokens : Includes(candidate, token)
      permission ==
        has({ <<"m","i","s","s","i","n","g","_","s","c","o","p","e">>,
              <<"n","o","t","_","a","l","l","o","w","e","d","_","t","o","k","e","n","_","t","y","p","e">>,
              <<"n","o","t","_","a","u","t","h","e","d">>,
              <<"i","n","v","a","l","i","d","_","a","u","t","h">>,
              <<"a","c","c","o","u","n","t","_","i","n","a","c","t","i","v","e">>,
              <<"f","o","r","b","i","d","d","e","n">>,
              <<"a","c","c","e","s","s","_","d","e","n","i","e","d">> })
      not_found ==
        has({ <<"t","h","r","e","a","d","_","n","o","t","_","f","o","u","n","d">>,
              <<"c","h","a","n","n","e","l","_","n","o","t","_","f","o","u","n","d">>,
              <<"m","e","s","s","a","g","e","_","n","o","t","_","f","o","u","n","d">>,
              <<"n","o","t","_","f","o","u","n","d">> })
      rate_limit ==
        has({ <<"r","a","t","e","_","l","i","m","i","t","e","d">>,
              <<"r","a","t","e","l","i","m","i","t","e","d">>, <<"4","2","9">>,
              <<"t","o","o"," ","m","a","n","y"," ","r","e","q","u","e","s","t","s">> })
  IN IF ~inOrder /\ rate_limit THEN "rate_limit"
     ELSE IF permission THEN "permission"
     ELSE IF not_found THEN "not_found"
     ELSE IF rate_limit THEN "rate_limit"
     ELSE "unknown"

\* textFromError(error) of the Telegram adapter
textFromError(error) ==
  IF error.text.defined THEN error.text.value
  ELSE IF error.message.defined THEN error.message.value
  ELSE IF error.description.defined THEN error.description.value
  ELSE NoText

\* classifyTelegramTitleError(error), inOrder as above.
ClassifyTelegram(error, inOrder) ==
  LET message == ToLower(textFromError(error))
      has(tokens) == \E token \in tokens : Includes(message, token)
      permission ==
        has({ <<"n","o","t"," ","e","n","o","u","g","h"," ","r","i","g","h","t","s">>,
              <<"f","o","r","b","i","d","d","e","n">>,
              <<"h","a","v","e"," ","n","o"," ","r","i","g","h","t","s">>,
              <<"c","a","n","'","t"," ","b","e"," ","e","d","i","t","e","d">>,
              <<"c","a","n","n","o","t"," ","e","d","i","t">>,
              <<"b","o","t"," ","w","a","s"," ","k","i","c","k","e","d">> })
      rate_limit ==
        has({ <<"t","o","o"," ","m","a","n","y"," ","r","e","q","u","e","s","t","s">>,
              <<"r","e","t","r","y"," ","a","f","t","e","r">>,
              <<"f","l","o","o","d"," ","c","o","n","t","r","o","l">>,
              <<"r","a","t","e"," ","l","i","m","i","t">>, <<"4","2","9">> })
      not_found ==
        has({ <<"t","h","r","e","a","d"," ","n","o","t"," ","f","o","u","n","d">>,
              <<"t","o","p","i","c"," ","n","o","t"," ","f","o","u","n","d">>,
              <<"c","h","a","t"," ","n","o","t"," ","f","o","u","n","d">>,
              <<"m","e","s","s","a","g","e"," ","t","o"," ","e","d","i","t"," ","n","o","t"," ","f","o","u","n","d">> })
  IN IF message = NoText THEN "unknown"
     ELSE IF ~inOrder /\ rate_limit THEN "rate_limit"
     ELSE IF permission THEN "permission"
     ELSE IF rate_limit THEN "rate_limit"
     ELSE IF not_found THEN "not_found"
     ELSE "unknown"

ClassifyRateLimitFirst(channel, error) ==
  IF channel = "slack" THEN ClassifySlack(error, FALSE) ELSE ClassifyTelegram(error, FALSE)

\* provider.classifyError(error) of createSlackThreadTitleProvider and of
\* createTelegramThreadTitleProvider.
classifyError(channel, error) ==
  IF channel = "slack" THEN ClassifySlack(error, TRUE) ELSE ClassifyTelegram(error, TRUE)

\* A call of classifyError of either adapter. Slack errors are platform
\* errors with data.error, data.needed, code and message, or strings;
\* Telegram errors are strings, Error objects with a message, and objects
\* with a description, with an empty message or with neither.
ClassifyErrorAny ==
  /\ lastParams = NoParams
  /\ \E channel \in {"slack", "telegram"} :
       LET Str(s) == [defined |-> TRUE, value |-> s]
           NoStr == [defined |-> FALSE, value |-> NoText]
           AdapterError(text, dataError, dataNeeded, code, message, description) ==
             [text |-> text, dataError |-> dataError, dataNeeded |-> dataNeeded,
              code |-> code, message |-> message, description |-> description]
           unexpected == Str(<<"u","n","e","x","p","e","c","t","e","d">>)
           tooMany == Str(<<"T","o","o"," ","M","a","n","y"," ","R","e","q","u","e","s","t","s",":"," ","r","e","t","r","y"," ","a","f","t","e","r"," ","7">>)
           kicked == Str(<<"F","o","r","b","i","d","d","e","n",":"," ","b","o","t"," ","w","a","s"," ","k","i","c","k","e","d">>)
           noTopic == Str(<<"B","a","d"," ","R","e","q","u","e","s","t",":"," ","t","o","p","i","c"," ","n","o","t"," ","f","o","u","n","d">>)
           forbiddenRetry == Str(<<"F","o","r","b","i","d","d","e","n",":"," ","r","e","t","r","y"," ","a","f","t","e","r"," ","7">>)
           forbiddenNoChat == Str(<<"F","o","r","b","i","d","d","e","n",":"," ","c","h","a","t"," ","n","o","t"," ","f","o","u","n","d">>)
           floodNoThread == Str(<<"F","l","o","o","d"," ","c","o","n","t","r","o","l",":"," ","t","h","r","e","a","d"," ","n","o","t"," ","f","o","u","n","d">>)
       IN
       \E error \in
          IF channel = "slack"
          THEN { AdapterError(text, dataError, dataNeeded, code, message, NoStr) :
                   text \in {NoStr, Str(<<"A","c","c","e","s","s","_","D","e","n","i","e","d">>)},
                   dataError \in {NoStr, Str(NoText), Str(<<"m","i","s","s","i","n","g","_","s","c","o","p","e">>),
                                  Str(<<"r","a","t","e","_","l","i","m","i","t","e","d">>),
                                  Str(<<"t","h","r","e","a","d","_","n","o","t","_","f","o","u","n","d">>)},
                   dataNeeded \in {NoStr, Str(<<"c","h","a","t",":","w","r","i","t","e">>)},
                   code \in {NoStr, Str(<<"n","o","t","_","f","o","u","n","d">>),
                             Str(<<"s","l","a","c","k","_","w","e","b","a","p","i","_","p","l","a","t","f","o","r","m","_","e","r","r","o","r">>)},
                   message \in {NoStr, unexpected, Str(<<"T","o","o"," ","M","a","n","y"," ","R","e","q","u","e","s","t","s">>),
                                Str(<<"F","o","r","b","i","d","d","e","n">>),
                                Str(<<"s","t","a","t","u","s"," ","4","2","9","0">>)} }
          ELSE { AdapterError(text, NoStr, NoStr, NoStr, message, description) :
                   text \in {NoStr, Str(NoText), tooMany, forbiddenRetry},
                   message \in {NoStr, Str(NoText), unexpected, tooMany, kicked, noTopic,
                                forbiddenRetry, forbiddenNoChat, floodNoThread},
                   description \in {NoStr, kicked, noTopic, floodNoThread} } :
         lastParams' = [op |-> "classifyError", channel |-> channel, error |-> error,
                        result |-> classifyError(channel, error)]
  /\ UNCHANGED <<now, ev, applyVars, managerVars, llm>>

\* ------------------------------------------------ in-memory state store
\* store.set(threadKey, state) on a store of
\* createInMemoryThreadTitleStateStore(maxEntries): lastParams holds the
\* store, its maxEntries, the number of set operations so far and the key
\* of the last one, and the keys the store was asked for or written with so
\* far, in the order of the calls (used), with the number of get operations
\* among them and what the last one returned.
StoreSetAny ==
  /\ lastParams.op \in {"none", "store"}
  /\ \E maxEntries \in {0, 1, 2}, threadKey \in {"", "a", "b", "c"} :
       LET fresh == lastParams.op # "store"
           stateMap == IF fresh THEN <<>> ELSE lastParams.stateMap
           sets == IF fresh THEN 0 ELSE lastParams.sets
           state == [UndefinedState EXCEPT !.threadKey = threadKey, !.status = "pending",
                                           !.attempts = sets + 1]
       IN /\ ~fresh => maxEntries = lastParams.maxEntries
          /\ sets < MaxSets
          /\ lastParams' = [op |-> "store", maxEntries |-> maxEntries, sets |-> sets + 1,
                            threadKey |-> threadKey,
                            stateMap |-> StoreSet(stateMap, threadKey, state, maxEntries),
                            used |-> (IF fresh THEN <<>> ELSE lastParams.used) \o <<threadKey>>,
                            gets |-> IF fresh THEN 0 ELSE lastParams.gets,
                            got |-> IF fresh THEN UndefinedState ELSE lastParams.got]
  /\ UNCHANGED <<now, ev, applyVars, managerVars, llm>>

\* store.get(threadKey) on that store: the map is read and left as it is.
StoreGetAny ==
  /\ lastParams.op = "store"
  /\ lastParams.gets < MaxGets
  /\ \E threadKey \in {"a", "b", "c"} :
       lastParams' = [lastParams EXCEPT
                        !.used = Append(@, threadKey),
                        !.gets = @ + 1,
                        !.got = StoreGet(lastParams.stateMap, threadKey)]
  /\ UNCHANGED <<now, ev, applyVars, managerVars, llm>>

\* ------------------------------------------------- delays of the manager
\* A failed attempt is recorded by markRenameResult: the attempt numbers run
\* from 0 to past the one where the delay after an unknown error reaches its
\* cap. lastParams keeps the delay of the attempt and of the next one, and
\* the state the update callback returns for a pending state of the key.
RetryDelayAny ==
  /\ lastParams = NoParams
  /\ \E errorClass \in ErrorClasses, attempts \in 0..MaxDelayAttempts,
        threadKey \in NativeThreadKeys :
       LET state == [UndefinedState EXCEPT !.threadKey = threadKey, !.status = "pending",
                                           !.attempts = attempts, !.lastAttemptAt = now,
                                           !.lastProposedTitle = TextPlan]
       IN lastParams' =
            [op |-> "markRenameResult", errorClass |-> errorClass, attempts |-> attempts,
             retryDelayMs |-> resolveRetryDelayMs(errorClass, attempts),
             nextRetryDelayMs |-> resolveRetryDelayMs(errorClass, attempts + 1),
             nextState |-> MarkResultNextState(state, threadKey, TextPlan, attempts,
                                               errorClass, now)]
  /\ UNCHANGED <<now, ev, applyVars, managerVars, llm>>

\* ----------------------------------------------- calls of the pure functions
FunctionsNext ==
  \/ ResolveSettingsAny
  \/ DeriveTitleAny
  \/ ClassifyErrorAny
  \/ StoreSetAny
  \/ StoreGetAny
  \/ RetryDelayAny

FunctionsSpec == Init /\ [][FunctionsNext]_vars

\* ------------------------------------------------------------ properties
\* The stored state of thread key k.
Stored(k) == StoreGet(stateStore, k)

\* The step is that of an applyThreadTitle call on k that got past the
\* provider and target checks, from its entry on.
StartsOn(k) == ev'.op = "start" /\ ev'.threadKey = k

\* The step invokes provider.setTitle for k.
InvokesSetTitle(k) == ev'.threadKey = k /\ "setTitle" \in ev'.invoked

\* C1: for calls that share one state store and one thread key, once the
\* stored state of the key is applied it is applied after every further step,
\* and no further step invokes provider.setTitle for the key.
C1_AppliedIsFinal ==
  [][\A k \in ThreadKeys :
       Stored(k).status = "applied" =>
         /\ StoreGet(stateStore', k).status = "applied"
         /\ ~InvokesSetTitle(k)]_vars

\* A call that was awaiting getCurrentTitle when another call's setTitle
\* succeeded has gone on to setTitle: the key is applied and titled again.
C1_TitledAgain ==
  \E k \in ThreadKeys :
    /\ Stored(k).status = "applied"
    /\ \E c \in Calls : calls[c].pc = "setTitle" /\ calls[c].baseState.threadKey = k
    /\ ev.op = "currentTitle" /\ "setTitle" \in ev.invoked

\* C2: the call whose setTitle succeeds returns applied and leaves the state
\* applied; a call made when the stored state is applied returns skipped /
\* already_applied, invokes nothing of the provider and leaves the stored
\* state and the calls as they are.
C2_SecondCallSkipped ==
  [][\A k \in ThreadKeys :
       /\ (ev'.op = "setTitle" /\ ev'.threadKey = k /\ ev'.result.outcome = "applied")
            => /\ \E c \in Calls : calls[c].pc = "setTitle" /\ calls'[c].pc = "idle"
               /\ StoreGet(stateStore', k).status = "applied"
               /\ StoreGet(stateStore', k).appliedTitle =
                    StoreGet(stateStore', k).lastProposedTitle
       /\ (Stored(k).status = "applied" /\ StartsOn(k))
            => /\ ev'.result = Result("skipped", "already_applied", "undefined")
               /\ ev'.invoked = {}
               /\ UNCHANGED <<stateStore, calls>>]_vars

\* Two calls in sequence: the first was applied on its first attempt, the
\* second has just returned already_applied, and one attempt is on record.
C2_AppliedOnceThenSkipped ==
  \E k \in ThreadKeys :
    /\ ev = Event("start", 1, k, {}, Result("skipped", "already_applied", "undefined"))
    /\ \A c \in Calls : calls[c].pc = "idle"
    /\ Stored(k).status = "applied"
    /\ Stored(k).attempts = 1

\* C4: at most one applyThreadTitle call per thread key is between its
\* pending record and its return: no call is awaiting setTitle while another
\* call on the same key is awaiting getCurrentTitle or setTitle.
C4_OneAttemptInFlight ==
  \A c, d \in Calls :
    (c # d /\ calls[c].pc # "idle" /\ calls[d].pc = "setTitle")
      => calls[c].baseState.threadKey # calls[d].baseState.threadKey

\* Two calls on one key are both awaiting setTitle.
C4_TwoAwaitingSetTitle ==
  \E c, d \in Calls :
    /\ c # d
    /\ calls[c].pc = "setTitle" /\ calls[d].pc = "setTitle"
    /\ calls[c].baseState.threadKey = calls[d].baseState.threadKey

\* C5: a setTitle rejection classified permission or not_found is returned
\* as failed / set_title_failed with that class and stored as disabled; from
\* then on the stored state stays disabled, every call on the key returns
\* skipped / disabled, and no step invokes setTitle for the key.
C5_DisabledIsFinal ==
  [][\A k \in ThreadKeys :
       /\ (/\ ev'.op = "setTitle" /\ ev'.threadKey = k
           /\ ev'.result.errorClass \in {"permission", "not_found"})
            => /\ ev'.result.outcome = "failed"
               /\ ev'.result.reason = "set_title_failed"
               /\ StoreGet(stateStore', k).status = "disabled"
       /\ (/\ Stored(k).status = "disabled"
           /\ Stored(k).lastErrorClass \in {"permission", "not_found"})
            => /\ StoreGet(stateStore', k).status = "disabled"
               /\ ~InvokesSetTitle(k)
               /\ StartsOn(k) => ev'.result.reason = "disabled"]_vars

\* The stored state of k is retry_after with its retryAfter still to come.
InCooldown(k) ==
  /\ Stored(k).status = "retry_after"
  /\ Stored(k).retryAfter > now

\* C7 as the specification has it: after a rate_limit failure of a call that
\* read the time t, retryAfter is t + d, d being what the adapter's
\* retryAfterMs supplied and 60 000 ms otherwise; a call on the key before
\* retryAfter returns skipped / cooldown and invokes nothing; a call at or
\* after retryAfter invokes setTitle.
C7_DelayAsSupplied ==
  [][\A k \in ThreadKeys :
       /\ \A c \in Calls, retryAfterMs \in RetryAfterMsValues :
            (/\ calls[c].baseState.threadKey = k
             /\ ApplySetTitleSettles(c, TRUE, "rate_limit", retryAfterMs))
              => /\ StoreGet(stateStore', k).status = "retry_after"
                 /\ StoreGet(stateStore', k).retryAfter =
                      calls[c].now + Nullish(retryAfterMs, DEFAULT_RATE_LIMIT_DELAY_MS)
       /\ (InCooldown(k) /\ StartsOn(k))
            => /\ ev'.result = Result("skipped", "cooldown", "undefined")
               /\ ev'.invoked = {}
       /\ (Stored(k).status = "retry_after" /\ ~InCooldown(k) /\ StartsOn(k))
            => "setTitle" \in ev'.invoked]_vars

\* C7, amended: after a rate_limit failure of a call that read the time t at
\* its entry, the call returns failed / set_title_failed / rate_limit and the
\* stored state is retry_after with retryAfter = t + max(1000, d), d being
\* what the adapter's retryAfterMs supplied and 60 000 ms otherwise. While
\* the stored state is retry_after and now < retryAfter, a call on the key
\* returns skipped / cooldown, invokes nothing and leaves the store as it is.
\* With now >= retryAfter a call for which a title can be derived records a
\* new pending attempt, one more than before, and invokes getCurrentTitle
\* where the provider has it and setTitle where it has not.
C7_DelayAtLeastOneSecond ==
  [][\A k \in ThreadKeys :
       /\ \A c \in Calls, retryAfterMs \in RetryAfterMsValues :
            (/\ calls[c].baseState.threadKey = k
             /\ ApplySetTitleSettles(c, TRUE, "rate_limit", retryAfterMs))
              => /\ ev'.result = Result("failed", "set_title_failed", "rate_limit")
                 /\ StoreGet(stateStore', k).status = "retry_after"
                 /\ StoreGet(stateStore', k).lastErrorClass = "rate_limit"
                 /\ StoreGet(stateStore', k).retryAfter =
                      calls[c].now
                        + Max(MIN_RETRY_DELAY_MS,
                              Nullish(retryAfterMs, DEFAULT_RATE_LIMIT_DELAY_MS))
       /\ (InCooldown(k) /\ StartsOn(k))
            => /\ ev'.result = Result("skipped", "cooldown", "undefined")
               /\ ev'.invoked = {}
               /\ UNCHANGED <<stateStore, calls>>
       /\ (/\ Stored(k).status = "retry_after" /\ ~InCooldown(k) /\ StartsOn(k)
           /\ ev'.result.reason # "no_candidate")
            => /\ ev'.result = NoResult
               /\ ev'.invoked \in {{"getCurrentTitle"}, {"setTitle"}}
               /\ StoreGet(stateStore', k).status = "pending"
               /\ StoreGet(stateStore', k).attempts = Stored(k).attempts + 1]_vars

\* A rate_limit failure for which the adapter supplied 500 ms was stored with
\* a retryAfter one second after the call's time; that time has come, and a
\* second attempt has been recorded and has invoked setTitle.
C7_RetriedAfterCooldown ==
  \E k \in ThreadKeys, c \in Calls :
    /\ calls[c].pc = "setTitle"
    /\ calls[c].baseState.threadKey = k
    /\ Stored(k) = calls[c].baseState
    /\ Stored(k).attempts = 2
    /\ Stored(k).lastErrorClass = "rate_limit"
    /\ Stored(k).retryAfter = StartMs + MIN_RETRY_DELAY_MS
    /\ Stored(k).retryAfter <= now

\* The nativeThreadTitle of the session entry job j works on.
EntryOf(j) == sessionStore[jobs[j].sessionKey]

\* The step is that of job j calling params.applyTitle.
CallsApplyTitle(j) == jobs[j].pc = "ai" /\ jobs'[j].pc = "applyTitle"

\* Job j has a session entry, the title model has answered it with title,
\* and its markRenameAttempt runs and finds the entry as it is now.
AttemptStep(j, title) ==
  /\ jobs[j].pc = "ai"
  /\ jobs[j].sessionKey # "undefined"
  /\ ~AppliedCacheHas(appliedThreadTitles, jobs[j].threadKey)
  /\ AiSettles(j, FALSE, title, FALSE)

\* C3: no request starts a job for a thread key that is in inFlightRenames,
\* or for one another job is running on; and a job calls applyTitle once at
\* most, after the title model's answer, its key being in inFlightRenames.
C3_InFlightRequestDropped ==
  [][\A j \in Jobs :
       /\ (jobs[j].pc = "idle" /\ jobs'[j].pc # "idle")
            => /\ jobs'[j].threadKey \notin inFlightRenames
               /\ \A i \in Jobs \ {j} :
                    jobs[i].pc # "idle" => jobs[i].threadKey # jobs'[j].threadKey
       /\ (jobs[j].pc # "applyTitle" /\ jobs'[j].pc = "applyTitle")
            => /\ jobs[j].pc = "ai"
               /\ jobs[j].threadKey \in inFlightRenames]_vars

\* A job on a thread key has called applyTitle and awaits it, and a slot is
\* free: a second request for the key comes to nothing.
C3_SecondRequestWhileAwaiting ==
  \E i, j \in Jobs :
    /\ jobs[i].pc = "applyTitle"
    /\ jobs[i].threadKey \in inFlightRenames
    /\ jobs[j].pc = "idle"
    /\ RequestReturnsAtOnce(jobs[i].threadKey)

\* C6: when the applyTitle of a job that has a sessionKey rejects with a
\* permission error and the store takes its update, the entry's record is
\* that of the job's thread key with status disabled; and while the record of
\* a thread key is disabled, no job for that key on that entry calls
\* applyTitle.
C6_PermissionDisables ==
  [][\A j \in Jobs :
       /\ \A error \in RenameErrors :
            (/\ "PERMISSION_RE" \in error
             /\ jobs[j].pc = "applyTitle"
             /\ jobs[j].sessionKey # "undefined"
             /\ ApplyTitleSettles(j, TRUE, error, "ok", {}))
              => /\ sessionStore'[jobs[j].sessionKey].threadKey = jobs[j].threadKey
                 /\ sessionStore'[jobs[j].sessionKey].status = "disabled"
       /\ (/\ jobs[j].pc = "ai"
           /\ jobs[j].sessionKey # "undefined"
           /\ EntryOf(j).threadKey = jobs[j].threadKey
           /\ EntryOf(j).status = "disabled")
            => ~CallsApplyTitle(j)]_vars

\* C8: when markRenameAttempt finds the record of the job's thread key at
\* retry_after with retryAfter still to come, then with lastErrorClass unknown
\* and a title other than lastProposedTitle the attempt is recorded, attempts
\* one more than before, and applyTitle is called; with the same title, or
\* another error class, the job ends, the record is left as it is and
\* applyTitle is not called. Once retryAfter has passed the attempt is
\* recorded and applyTitle is called.
C8_EarlyRetryOnNewTitle ==
  [][\A j \in Jobs, title \in AiTitles :
       (/\ AttemptStep(j, title)
        /\ EntryOf(j).threadKey = jobs[j].threadKey
        /\ EntryOf(j).status = "retry_after")
         => IF \/ EntryOf(j).retryAfter <= now
               \/ /\ EntryOf(j).lastErrorClass = "unknown"
                  /\ EntryOf(j).lastProposedTitle # title
            THEN /\ CallsApplyTitle(j)
                 /\ sessionStore'[jobs[j].sessionKey].threadKey = jobs[j].threadKey
                 /\ sessionStore'[jobs[j].sessionKey].status = "pending"
                 /\ sessionStore'[jobs[j].sessionKey].attempts = EntryOf(j).attempts + 1
                 /\ sessionStore'[jobs[j].sessionKey].lastProposedTitle = title
                 /\ jobs'[j].title = title
            ELSE /\ ~CallsApplyTitle(j)
                 /\ jobs'[j].pc = "settled"
                 /\ UNCHANGED sessionStore]_vars

\* A second attempt is on record and has called applyTitle before the
\* first retryAfter of an unknown failure has passed.
C8_RetriedBeforeRetryAfter ==
  \E j \in Jobs :
    /\ jobs[j].pc = "applyTitle"
    /\ jobs[j].sessionKey # "undefined"
    /\ jobs[j].attempts = 2
    /\ EntryOf(j).threadKey = jobs[j].threadKey
    /\ EntryOf(j).status = "pending"
    /\ EntryOf(j).attempts = 2
    /\ EntryOf(j).lastAttemptAt = now
    /\ now < StartMs + UNKNOWN_RETRY_BASE_MS

\* C9: when markRenameAttempt finds the record of the job's thread key
\* pending, then with lastAttemptAt less than 60 s before now applyTitle is
\* not called and the record is left as it is; with 60 s or more a new
\* pending attempt is recorded and applyTitle is called.
C9_PendingLeaseHolds ==
  [][\A j \in Jobs, title \in AiTitles :
       (/\ AttemptStep(j, title)
        /\ EntryOf(j).threadKey = jobs[j].threadKey
        /\ EntryOf(j).status = "pending"
        /\ EntryOf(j).lastAttemptAt # NoNumber)
         => IF now - EntryOf(j).lastAttemptAt < PENDING_LEASE_MS
            THEN /\ ~CallsApplyTitle(j)
                 /\ UNCHANGED sessionStore
            ELSE /\ CallsApplyTitle(j)
                 /\ sessionStore'[jobs[j].sessionKey].status = "pending"
                 /\ sessionStore'[jobs[j].sessionKey].lastAttemptAt = now
                 /\ sessionStore'[jobs[j].sessionKey].attempts = EntryOf(j).attempts + 1]_vars

\* After a restart within the lease of a pending attempt, a job is awaiting
\* applyTitle on the record of the attempt that was cut off.
C9_AppliesWithinLease ==
  \E j \in Jobs :
    /\ jobs[j].pc = "applyTitle"
    /\ jobs[j].sessionKey # "undefined"
    /\ EntryOf(j).threadKey = jobs[j].threadKey
    /\ EntryOf(j).status = "pending"
    /\ EntryOf(j).lastAttemptAt < now
    /\ now - EntryOf(j).lastAttemptAt < PENDING_LEASE_MS

\* C10: while the session entry holds the record of thread key K with status
\* applied, no job for K on that entry calls applyTitle, and no step of such
\* a job changes the record.
C10_AppliedSurvivesRestart ==
  [][\A j \in Jobs :
       (/\ jobs[j].pc \in {"ai", "applyTitle"}
        /\ jobs[j].sessionKey # "undefined"
        /\ EntryOf(j).threadKey = jobs[j].threadKey
        /\ EntryOf(j).status = "applied")
         => /\ jobs[j].pc = "ai"
            /\ ~CallsApplyTitle(j)
            /\ jobs'[j] # jobs[j] => UNCHANGED sessionStore]_vars

\* After a restart the store could not be read, the title model was asked,
\* and the job for K has ended on the applied record without calling
\* applyTitle: K is not in the applied cache and the job is yet to be cleaned up.
C10_EndedOnAppliedRecord ==
  \E j \in Jobs, k \in SessionKeys :
    /\ jobs[j].pc = "settled"
    /\ jobs[j].threadKey \in inFlightRenames
    /\ sessionStore[k].threadKey = jobs[j].threadKey
    /\ sessionStore[k].status = "applied"
    /\ ~AppliedCacheHas(appliedThreadTitles, jobs[j].threadKey)
    /\ inFlightRenames = {jobs[j].threadKey}

\* The reason codes applyThreadTitle returns with a skipped outcome before it
\* has recorded an attempt.
EarlySkipReasons ==
  {"provider_mismatch", "unsupported_target", "disabled", "cooldown", "already_applied",
   "no_candidate"}

\* The stored state of k is disabled for a title the thread had of its own.
DisabledForExistingTitle(k) ==
  Stored(k).status = "disabled" /\ Stored(k).appliedTitle # NoText

\* C12: when getCurrentTitle resolves to a non-empty title that is no default
\* placeholder, the call invokes no setTitle, stores disabled with that title
\* as appliedTitle and returns skipped / existing_title_present, and from
\* then on every call on the key is skipped and no step invokes setTitle for
\* the key; when it resolves to nothing or to a placeholder, setTitle is
\* invoked.
C12_ExistingTitleKept ==
  [][\A k \in ThreadKeys :
       /\ \A c \in Calls, currentTitle \in CurrentTitles :
            (/\ calls[c].baseState.threadKey = k
             /\ ApplyCurrentTitleSettles(c, FALSE, currentTitle))
              => IF /\ currentTitle # NoText
                    /\ ToLower(Trim(currentTitle)) \notin DEFAULT_THREAD_PLACEHOLDERS
                 THEN /\ ev'.invoked = {}
                      /\ ev'.result = Result("skipped", "existing_title_present", "undefined")
                      /\ StoreGet(stateStore', k).status = "disabled"
                      /\ StoreGet(stateStore', k).appliedTitle = currentTitle
                 ELSE ev'.invoked = {"setTitle"}
       /\ DisabledForExistingTitle(k)
            => /\ ~InvokesSetTitle(k)
               /\ StartsOn(k) => ev'.result.outcome = "skipped"]_vars

\* The key was disabled for the title the thread had, and a call that was
\* already awaiting getCurrentTitle has gone on to setTitle.
C12_SetTitleOverExistingTitle ==
  \E k \in ThreadKeys, c \in Calls :
    /\ DisabledForExistingTitle(k)
    /\ calls[c].pc = "setTitle" /\ calls[c].baseState.threadKey = k
    /\ ev.op = "currentTitle" /\ ev.id = c /\ "setTitle" \in ev.invoked

\* C13: whatever getCurrentTitle and setTitle do, a step of a call either
\* leaves the call at its next await or returns a result whose outcome is
\* applied, skipped or failed, with a reason code: the call never rejects.
C13_NeverRejects ==
  [][(ev' # ev /\ ev'.op \in {"start", "currentTitle", "setTitle"})
       => \/ /\ ev'.result = NoResult
             /\ calls'[ev'.id].pc \in {"getCurrentTitle", "setTitle"}
          \/ /\ ev'.result.outcome \in {"applied", "skipped", "failed"}
             /\ ev'.result.reason \in
                  EarlySkipReasons \cup {"existing_title_present", "applied", "set_title_failed"}
             /\ ev'.op # "start" => calls'[ev'.id].pc = "idle"]_vars

\* A call whose provider has getCurrentTitle got past the probe and its
\* setTitle rejected with an error of no known class: it returned failed.
C13_FailedWithUnknownError ==
  /\ ev.op = "setTitle"
  /\ ev.result = Result("failed", "set_title_failed", "unknown")
  /\ calls[ev.id].pc = "idle"
  /\ Stored(ev.threadKey).status = "retry_after"

\* C14: a call that returns skipped with reason provider_mismatch,
\* unsupported_target, disabled, cooldown, already_applied or no_candidate
\* invokes nothing of the provider and leaves the state store and the other
\* calls as they are.
C14_EarlySkipChangesNothing ==
  [][(/\ ev'.op = "start"
      /\ ev'.result.outcome = "skipped"
      /\ ev'.result.reason \in EarlySkipReasons)
       => /\ ev'.invoked = {}
          /\ UNCHANGED <<stateStore, calls>>]_vars

\* After a failure and its cooldown a call found no title in its texts: it
\* returned no_candidate and the failure is still what the store holds.
C14_NoCandidateAfterFailure ==
  \E k \in ThreadKeys :
    /\ ev.op = "start" /\ ev.threadKey = k
    /\ ev.result = Result("skipped", "no_candidate", "undefined")
    /\ Stored(k).status = "retry_after"
    /\ Stored(k).retryAfter <= now

\* C15: in the step in which a call passes the eligibility checks and
\* invokes the provider for the first time (getCurrentTitle where the
\* provider has it, setTitle where not), the store holds for the key a
\* pending record with one attempt more than before, lastAttemptAt = now and
\* lastProposedTitle = the title derived from the call's texts.
C15_PendingBeforeProvider ==
  [][(ev'.op = "start" /\ ev'.invoked # {})
       => \A provider \in Providers, target \in Targets,
             primaryText \in PrimaryTexts, fallbackText \in FallbackTexts,
             maxChars \in MaxCharsValues :
            ApplyStart(ev'.id, provider, target, primaryText, fallbackText, maxChars)
              => LET k == resolveDefaultThreadKey(target)
                     recorded == StoreGet(stateStore', k)
                 IN /\ ev'.invoked =
                         IF provider.hasGetCurrentTitle
                         THEN {"getCurrentTitle"} ELSE {"setTitle"}
                    /\ recorded.status = "pending"
                    /\ recorded.attempts = Nullish(Stored(k).attempts, 0) + 1
                    /\ recorded.lastAttemptAt = now
                    /\ recorded.lastProposedTitle =
                         DerivedTitles[primaryText, fallbackText, maxChars]
                    /\ recorded.lastProposedTitle # NoText
                    /\ calls'[ev'.id].baseState = recorded]_vars

\* A second attempt on a key is awaiting getCurrentTitle, its pending record
\* in the store.
C15_SecondAttemptRecorded ==
  \E k \in ThreadKeys, c \in Calls :
    /\ calls[c].pc = "getCurrentTitle"
    /\ ev.op = "start" /\ ev.id = c /\ ev.invoked = {"getCurrentTitle"}
    /\ Stored(k) = calls[c].baseState
    /\ Stored(k).status = "pending"
    /\ Stored(k).attempts = 2

\* Some entry of the session store holds an applied record for thread key k.
AppliedInStore(k) ==
  \E s \in SessionKeys : sessionStore[s].threadKey = k /\ sessionStore[s].status = "applied"

\* The step is a request that starts job j for thread key k.
StartsJob(j, k) == jobs[j].pc = "idle" /\ jobs'[j].pc # "idle" /\ jobs'[j].threadKey = k

C18_AiFailureBacksOff ==
  [][/\ \A j \in Jobs :
          (jobs[j].pc = "ai" /\ AiSettles(j, TRUE, NoText, FALSE))
            => /\ jobs'[j] = Settled(jobs[j])
               /\ aiTitleDisabledUntil' = now + AI_FAILURE_BACKOFF_MS
               /\ aiTitleDisabledUntil' = now + 600000
               /\ UNCHANGED <<sessionStore, appliedThreadTitles>>
     /\ now < aiTitleDisabledUntil
          => \A j \in Jobs : ~(jobs[j].pc = "idle" /\ jobs'[j].pc = "ai")
     /\ (now >= aiTitleDisabledUntil /\ \E j \in Jobs : jobs[j].pc = "idle" /\ jobs'[j].pc # "idle")
          => \A j \in Jobs, sessionKey \in SessionKeys \cup {"undefined"},
                threadRef \in ThreadRefs, primaryText \in PrimaryTexts,
                fallbackText \in FallbackTexts :
               (/\ Request(j, sessionKey, threadRef, primaryText, fallbackText, TRUE)
                /\ PromptSeeds[primaryText, fallbackText] # NoText)
                 => jobs'[j].pc = "ai"]_vars

\* The title model failed, the ten minutes are over, and a request has got
\* to the title model again.
C18_ModelAskedAfterBackoff ==
  /\ aiTitleDisabledUntil = StartMs + AI_FAILURE_BACKOFF_MS
  /\ now >= aiTitleDisabledUntil
  /\ \E j \in Jobs : jobs[j].pc = "ai"

\* C16: a call made with isFirstMessage = false returns skipped /
\* not_first_message, invokes nothing of the provider and leaves the store
\* and the calls as they are.
C16_NotFirstMessageSkipped ==
  [][(ev'.op = "start" /\ lastParams'.isFirstMessage = "false")
       => /\ ev'.result = Result("skipped", "not_first_message", "undefined")
          /\ ev'.invoked = {}
          /\ UNCHANGED <<stateStore, calls>>]_vars

\* A call made with isFirstMessage = false has recorded an attempt and
\* invoked setTitle.
C16_AttemptedThoughNotFirst ==
  /\ lastParams.op = "apply"
  /\ lastParams.isFirstMessage = "false"
  /\ ev.op = "start" /\ ev.invoked = {"setTitle"}
  /\ calls[ev.id].pc = "setTitle"
  /\ Stored(ev.threadKey).status = "pending"

\* C17: the title of an attempt made with strategy llm, which is what
\* setTitle is called with, is the title generateLlmTitle resolved to when it
\* resolved to one, and the title derived from the texts when it resolved to
\* nothing.
C17_LlmTitleFirst ==
  [][(ev'.op = "start" /\ ev'.invoked # {} /\ lastParams'.strategy = "llm")
       => \A provider \in Providers, target \in Targets,
             primaryText \in PrimaryTexts, fallbackText \in FallbackTexts,
             maxChars \in MaxCharsValues :
            ApplyStart(ev'.id, provider, target, primaryText, fallbackText, maxChars)
              => calls'[ev'.id].baseState.lastProposedTitle =
                   IF lastParams'.llmTitle # NoText
                   THEN lastParams'.llmTitle
                   ELSE DerivedTitles[primaryText, fallbackText, maxChars]]_vars

\* A call made with strategy llm and a generator that resolves to a title is
\* awaiting setTitle with another title, the one derived from its texts.
C17_DerivedTitleDespiteLlm ==
  /\ lastParams.op = "apply"
  /\ lastParams.strategy = "llm"
  /\ lastParams.llmTitle # NoText
  /\ ev.op = "start" /\ ev.invoked = {"setTitle"}
  /\ calls[ev.id].pc = "setTitle"
  /\ calls[ev.id].baseState.lastProposedTitle # lastParams.llmTitle

\* C19: generateThreadTitleViaLLM never rejects: whatever the provider
\* request does (an answer, a status that is not OK, a network error, an
\* abort on timeout, a body that does not parse), a call that is over has
\* resolved, to a title or to undefined, and its timeout timer is cleared if
\* it was ever created, which is when the request was sent.
C19_LlmNeverRejects ==
  /\ llm.result.kind # "rejected"
  /\ llm.pc = "done" =>
       /\ llm.result.kind = "resolved"
       /\ llm.timer \in {"none", "cleared"}
       /\ (llm.timer = "cleared") <=> (llm.fetches = 1)
       /\ llm.outcome \in {"not_ok", "network_error", "bad_json", "abort"}
            => llm.result.title = NoText

\* A call whose timer fired and whose request was aborted has resolved to
\* undefined with the timer cleared.
C19_AbortedResolvesUndefined ==
  /\ llm.pc = "done"
  /\ llm.outcome = "abort"
  /\ llm.aborted
  /\ llm.timer = "cleared"
  /\ llm.result = Resolved(NoText)

\* The texts of the call are both blank.
LlmTextsBlank == Trim(lastParams.primaryText) = <<>> /\ Trim(lastParams.fallbackText) = <<>>

\* A model reference resolves for the call and its provider is on the
\* allow-list.
LlmProviderSupported ==
  LET ref == ConfiguredModelRef(lastParams.modelRef, lastParams.defaultModelRef)
  IN /\ ref # NoText
     /\ parseModelRef(ref, Anthropic) # NoRef
     /\ parseModelRef(ref, Anthropic).provider \in SUPPORTED_PROVIDERS

\* An API key is configured for the provider of the call.
LlmApiKeyConfigured ==
  LET ref == ConfiguredModelRef(lastParams.modelRef, lastParams.defaultModelRef)
      provider == parseModelRef(ref, Anthropic).provider
  IN IF provider = Google
     THEN \E key \in {"GEMINI_API_KEY", "GOOGLE_API_KEY"} :
            resolveThreadTitleEnvValue(lastParams.cfgEnv, lastParams.processEnv, key) # NoText
     ELSE resolveThreadTitleEnvValue(lastParams.cfgEnv, lastParams.processEnv,
                                     "ANTHROPIC_API_KEY") # NoText

ConfiguredTimeout ==
  IF Trim(lastParams.cfgTimeout) # <<>> THEN lastParams.cfgTimeout ELSE lastParams.envTimeout

TitleOfAlone(text) ==
  deriveConversationTitle(text, NoText, lastParams.maxChars, lastParams.withNames)

\* C22: deriveConversationTitle returns what primaryText alone yields when
\* that is a title, else what fallbackText alone yields, which is undefined
\* when it is rejected too; a slash command as primaryText is always
\* rejected: "/status" without a fallback yields undefined and with the
\* fallback " Fix  bug!" it yields "Fix bug".
C22_PrimaryBeforeFallback ==
  lastParams.op = "deriveConversationTitle" =>
    LET primaryText == lastParams.primaryText
        fallbackText == lastParams.fallbackText
        result == lastParams.result
    IN /\ result = IF TitleOfAlone(primaryText) # NoText
                   THEN TitleOfAlone(primaryText)
                   ELSE TitleOfAlone(fallbackText)
       /\ primaryText \in {TextStatus, TitleTexts.slash} => result = TitleOfAlone(fallbackText)
       /\ primaryText = TextStatus /\ fallbackText = NoText => result = NoText
       /\ primaryText = TextStatus /\ fallbackText = TextFix /\ lastParams.maxChars = 80
            => result = <<"F","i","x"," ","b","u","g">>
       /\ primaryText = TextPlan /\ lastParams.maxChars = 80 => result = TextPlan

\* The slash command "/t high" with a fallback has yielded the title of the
\* fallback.
C22_FallbackAfterSlashCommand ==
  /\ lastParams.op = "deriveConversationTitle"
  /\ lastParams.primaryText = TitleTexts.slash
  /\ lastParams.fallbackText = TextFix
  /\ lastParams.result = <<"F","i","x"," ","b","u","g">>

\* C23: deriveConversationTitle removes the placeholder tokens and keeps the
\* text around them: "Please review [Slack file: report.pdf]" yields "Please
\* review", and a text of placeholder tokens only is rejected, so that the
\* result is what the fallback yields, undefined without one.
C23_PlaceholderTokensRemoved ==
  lastParams.op = "deriveConversationTitle" =>
    /\ lastParams.primaryText = TitleTexts.review /\ lastParams.maxChars = 80
         => lastParams.result = <<"P","l","e","a","s","e"," ","r","e","v","i","e","w">>
    /\ lastParams.primaryText \in {TitleTexts.files, TitleTexts.media}
         => lastParams.result = TitleOfAlone(lastParams.fallbackText)

\* The revision that calls normalizeAttachmentTokens has made a title of the
\* names of the files of a text of placeholder tokens only.
C23_TitleOfFileNames ==
  /\ lastParams.op = "deriveConversationTitle"
  /\ lastParams.withNames
  /\ lastParams.primaryText = TitleTexts.files
  /\ lastParams.fallbackText = NoText
  /\ lastParams.maxChars = 80
  /\ lastParams.result = <<"a",".","p","d","f"," ","b",".","p","n","g">>

\* The keywords of a class, by adapter, that the claim C25 is checked on.
KnownKeywords(channel, class) ==
  IF channel = "slack"
  THEN CASE class = "permission" -> { <<"m","i","s","s","i","n","g","_","s","c","o","p","e">>,
                       <<"n","o","t","_","a","l","l","o","w","e","d","_","t","o","k","e","n","_","t","y","p","e">>,
                       <<"f","o","r","b","i","d","d","e","n">>,
                       <<"a","c","c","e","s","s","_","d","e","n","i","e","d">> }
         [] class = "rate_limit" -> { <<"4","2","9">>,
                       <<"r","a","t","e","_","l","i","m","i","t","e","d">>,
                       <<"t","o","o"," ","m","a","n","y"," ","r","e","q","u","e","s","t","s">> }
         [] OTHER -> { <<"n","o","t","_","f","o","u","n","d">> }
  ELSE CASE class = "permission" -> { <<"f","o","r","b","i","d","d","e","n">>,
                       <<"b","o","t"," ","w","a","s"," ","k","i","c","k","e","d">>,
                       <<"n","o","t"," ","e","n","o","u","g","h"," ","r","i","g","h","t","s">> }
         [] class = "rate_limit" -> { <<"4","2","9">>, <<"r","e","t","r","y"," ","a","f","t","e","r">>,
                       <<"t","o","o"," ","m","a","n","y"," ","r","e","q","u","e","s","t","s">>,
                       <<"f","l","o","o","d"," ","c","o","n","t","r","o","l">> }
         [] OTHER -> { <<"t","h","r","e","a","d"," ","n","o","t"," ","f","o","u","n","d">>,
                       <<"t","o","p","i","c"," ","n","o","t"," ","f","o","u","n","d">>,
                       <<"c","h","a","t"," ","n","o","t"," ","f","o","u","n","d">> }

\* The last classifyError call was given an error that carries a keyword of
\* the class, in what the adapter reads of the error.
Carries(class) ==
  LET error == lastParams.error
      texts == IF lastParams.channel = "slack"
               THEN { ToLower(f.value) :
                        f \in { f \in {error.dataError, error.dataNeeded, error.code,
                                       error.message, error.text} : f.defined } }
               ELSE { ToLower(textFromError(error)) }
  IN \E text \in texts, keyword \in KnownKeywords(lastParams.channel, class) :
       Includes(text, keyword)

\* C25: classifyError of the Slack adapter and of the Telegram adapter
\* returns one of permission, rate_limit, not_found and unknown for every
\* error; an error with a permission keyword is classified permission, also
\* when it carries rate-limit or not-found keywords; a rate-limit keyword
\* alone gives rate_limit, a not-found keyword alone gives not_found, and no
\* keyword gives unknown.
C25_ClassifiedByKeyword ==
  lastParams.op = "classifyError" =>
    /\ lastParams.result \in ErrorClasses
    /\ Carries("permission") => lastParams.result = "permission"
    /\ Carries("rate_limit") /\ ~Carries("permission") /\ ~Carries("not_found")
         => lastParams.result = "rate_limit"
    /\ Carries("not_found") /\ ~Carries("permission") /\ ~Carries("rate_limit")
         => lastParams.result = "not_found"
    /\ ~Carries("permission") /\ ~Carries("rate_limit") /\ ~Carries("not_found")
         => lastParams.result = "unknown"

\* C25 witness: an error of either adapter with a permission keyword and a
\* rate-limit keyword has been classified permission.
C25_PermissionOverRateLimit ==
  /\ lastParams.op = "classifyError"
  /\ lastParams.channel = "telegram"
  /\ lastParams.error.message.value =
       <<"F","o","r","b","i","d","d","e","n",":"," ","r","e","t","r","y"," ","a","f","t","e","r"," ","7">>
  /\ ~lastParams.error.text.defined
  /\ Carries("permission") /\ Carries("rate_limit")
  /\ lastParams.result = "permission"

\* The key the tests and the rule of the adapter give the target: the chat
\* id trimmed and the topic id truncated, for the topic ids above 1.
ExpectedTelegramKey(target) ==
  LET chat == target.conversationId \in {<<"-","1","0","0","1","2","3">>, <<" ","-","1","0","0","1","2","3"," ">>}
      id == target.threadId
  IN IF chat /\ (\/ id.type = "number" /\ id.tenths = 2710
                 \/ id.type = "string" /\ id.text = <<"2","7","1">>)
     THEN "telegram:-100123:271"
     ELSE IF chat /\ (\/ id.type = "number" /\ id.tenths = 29
                      \/ id.type = "string" /\ id.text \in {<<" ","2"," ">>, <<"2",".","7">>})
     THEN "telegram:-100123:2"
     ELSE "undefined"

\* C24: the Telegram adapter's resolveThreadKey gives telegram:{chatId}:{topicId}
\* exactly when conversationId is not blank and the truncated numeric
\* threadId is finite and above 1; an applyThreadTitle call with the adapter
\* for any other target, the general topic among them, returns skipped /
\* unsupported_target, leaves the state store as it was and invokes nothing
\* of the provider.
C24_TelegramKeyOnlyForForumTopics ==
  [][ ev'.op = "start" /\ lastParams'.op = "applyThreadTitle" =>
        IF ExpectedTelegramKey(lastParams'.target) = "undefined"
        THEN /\ ev'.result = Result("skipped", "unsupported_target", "undefined")
             /\ ev'.invoked = {}
             /\ stateStore' = stateStore
        ELSE ev'.threadKey = ExpectedTelegramKey(lastParams'.target) ]_vars

\* C24 witness: a call for the general topic of a chat (topic id 1) has
\* returned skipped / unsupported_target after a call for topic 271 of the
\* chat has stored a state.
C24_GeneralTopicSkipped ==
  /\ ev.op = "start"
  /\ lastParams.op = "applyThreadTitle"
  /\ lastParams.target.conversationId = <<"-","1","0","0","1","2","3">>
  /\ lastParams.target.threadId.type = "number" /\ lastParams.target.threadId.tenths = 10
  /\ ev.result = Result("skipped", "unsupported_target", "undefined")
  /\ StoreGet(stateStore, "telegram:-100123:271").status # "undefined"

\* C26: the in-memory caches are bounded: after any sequence of set
\* operations a store of createInMemoryThreadTitleStateStore(maxEntries)
\* holds at most maxEntries entries, and the entry just written is among them
\* when maxEntries is at least 1; the manager's cache of applied titles holds
\* at most 5000 entries.
C26_CachesBounded ==
  /\ lastParams.op = "store" =>
        /\ Len(lastParams.stateMap) <= lastParams.maxEntries
        /\ lastParams.maxEntries >= 1 =>
              StoreGet(lastParams.stateMap, lastParams.threadKey).attempts = lastParams.sets
  /\ Len(appliedThreadTitles) <= MAX_PENDING_ATTEMPTS

\* C26 witness: a third set operation on a store of two entries has evicted
\* the oldest entry and kept the entry it wrote.
C26_OldestEntryEvicted ==
  /\ lastParams.op = "store"
  /\ lastParams.maxEntries = 2 /\ lastParams.sets = 3
  /\ Len(lastParams.stateMap) = 2
  /\ lastParams.stateMap[1].threadKey = "b"
  /\ lastParams.stateMap[2].threadKey = "c"

\* C29: an applyThreadTitle call for a key whose stored state is retry_after
\* with now < retryAfter is skipped with reason cooldown, except when the
\* last error class is unknown and the title derived for the call differs
\* from lastProposedTitle: such a call goes on to a new attempt.
C29_CooldownWithEarlyRetry ==
  [][ \A target \in Targets :
        LET k == resolveDefaultThreadKey(target)
            st == Stored(k)
        IN ( /\ k # "undefined"
             /\ StartsOn(k)
             /\ st.status = "retry_after"
             /\ st.retryAfter # NoNumber
             /\ now < st.retryAfter )
           => \A c \in Calls, provider \in Providers, primaryText \in PrimaryTexts,
                 fallbackText \in FallbackTexts, maxChars \in MaxCharsValues :
                LET title == DerivedTitles[primaryText, fallbackText, maxChars]
                IN ApplyStart(c, provider, target, primaryText, fallbackText, maxChars)
                     /\ target.channel = provider.channel
                   => IF /\ st.lastErrorClass = "unknown"
                         /\ title # NoText
                         /\ title # st.lastProposedTitle
                      THEN ev'.result = NoResult /\ ev'.invoked # {}
                      ELSE ev'.result = Result("skipped", "cooldown", "undefined") ]_vars

\* C29 witness: a call within the cooldown of a rate-limit failure has been
\* skipped with reason cooldown.
C29_SkippedInCooldown ==
  /\ ev.op = "start"
  /\ ev.result = Result("skipped", "cooldown", "undefined")
  /\ Stored(ev.threadKey).status = "retry_after"
  /\ Stored(ev.threadKey).lastErrorClass = "rate_limit"
  /\ now < Stored(ev.threadKey).retryAfter

\* C30: the retry delay of the manager after an unknown error is
\* min(60000 * 2^max(0, attempts - 1), 3600000) ms: 60 s at first, doubled
\* with each attempt, never decreasing and never above one hour; after
\* not_found it is 30 minutes and the state becomes retry_after, not
\* disabled; after permission the state is disabled and no retry is
\* scheduled.
C30_RetryDelayByClass ==
  lastParams.op = "markRenameResult" =>
    LET delay == lastParams.retryDelayMs
        nextDelay == lastParams.nextRetryDelayMs
        nextState == lastParams.nextState
    IN /\ lastParams.errorClass = "unknown" =>
             /\ lastParams.attempts <= 1 => delay = 60000
             /\ delay >= 60000 /\ delay <= 3600000
             /\ nextDelay >= delay
             /\ lastParams.attempts >= 1 =>
                   nextDelay = (IF 2 * delay <= 3600000 THEN 2 * delay ELSE 3600000)
             /\ nextState.status = "retry_after"
             /\ nextState.retryAfter = now + delay
       /\ lastParams.errorClass = "not_found" =>
             /\ delay = 30 * 60000
             /\ nextState.status = "retry_after"
             /\ nextState.retryAfter = now + 30 * 60000
       /\ lastParams.errorClass = "permission" =>
             /\ nextState.status = "disabled"
             /\ nextState.retryAfter = NoNumber

\* C30 witness: the delay after an unknown error has reached the cap of one
\* hour, which the doubled delay of the attempt before would exceed.
C30_DelayAtCap ==
  /\ lastParams.op = "markRenameResult"
  /\ lastParams.errorClass = "unknown"
  /\ lastParams.attempts = 6
  /\ lastParams.retryDelayMs = 1920000
  /\ lastParams.nextRetryDelayMs = 3600000

\* C28: when the applyTitle of a job that has a sessionKey rejects with a
\* rate-limit error and the store takes its update, the entry's record is
\* that of the job's thread key with status retry_after, lastErrorClass
\* rate_limit and retryAfter later than now; while that record is there and
\* now is before retryAfter, no job for the key on the entry calls
\* applyTitle, whatever the title; from retryAfter on, a job whose
\* markRenameAttempt runs calls applyTitle again.
C28_RateLimitBacksOff ==
  [][\A j \in Jobs :
       /\ \A error \in RenameErrors :
            (/\ classifyRenameError(error) = "rate_limit"
             /\ jobs[j].pc = "applyTitle"
             /\ jobs[j].sessionKey # "undefined"
             /\ ApplyTitleSettles(j, TRUE, error, "ok", {}))
              => /\ sessionStore'[jobs[j].sessionKey].threadKey = jobs[j].threadKey
                 /\ sessionStore'[jobs[j].sessionKey].status = "retry_after"
                 /\ sessionStore'[jobs[j].sessionKey].lastErrorClass = "rate_limit"
                 /\ sessionStore'[jobs[j].sessionKey].retryAfter > now
       /\ (/\ jobs[j].pc = "ai"
           /\ jobs[j].sessionKey # "undefined"
           /\ EntryOf(j).threadKey = jobs[j].threadKey
           /\ EntryOf(j).status = "retry_after"
           /\ EntryOf(j).lastErrorClass = "rate_limit")
            => /\ now < EntryOf(j).retryAfter => ~CallsApplyTitle(j)
               /\ \A title \in AiTitles :
                    (now >= EntryOf(j).retryAfter /\ AttemptStep(j, title))
                      => CallsApplyTitle(j)]_vars

\* C28 witness: the record of a rate-limit failure is on its entry, its
\* retryAfter has passed, and a job of a new request for the key has the
\* answer of the title model to wait for.
C28_DueAfterRateLimit ==
  \E j \in Jobs :
    /\ jobs[j].pc = "ai"
    /\ jobs[j].sessionKey # "undefined"
    /\ EntryOf(j).threadKey = jobs[j].threadKey
    /\ EntryOf(j).status = "retry_after"
    /\ EntryOf(j).lastErrorClass = "rate_limit"
    /\ EntryOf(j).retryAfter = StartMs + RATE_LIMIT_RETRY_MS
    /\ now >= EntryOf(j).retryAfter

\* C27: a thread key is in inFlightRenames exactly while a job for it has
\* not run its finally callback, so a finished job blocks no later request
\* for its key; the callback takes the key out; and when every awaited call
\* settles in the end, every job, whichever way it ends, takes its key out
\* of inFlightRenames: a key that is in the set is out of it later on, so
\* that the set is empty once no further job is started.
C27_InFlightReleased ==
  /\ [](inFlightRenames = { jobs[j].threadKey : j \in {i \in Jobs : jobs[i].pc # "idle"} })
  /\ [][\A j \in Jobs :
          (jobs[j].pc = "settled" /\ jobs'[j].pc = "idle")
            => jobs[j].threadKey \notin inFlightRenames']_vars
  /\ \A threadKey \in NativeThreadKeys :
       (threadKey \in inFlightRenames) ~> (threadKey \notin inFlightRenames)

\* C27 witness: a job whose applyTitle was rejected has run to its end and
\* its finally callback has run: the failure is on record, no job is left
\* and inFlightRenames is empty.
C27_EmptyAfterFailure ==
  /\ inFlightRenames = {}
  /\ \A j \in Jobs : jobs[j].pc = "idle"
  /\ appliedThreadTitles = <<>>
  /\ \E sessionKey \in SessionKeys :
       /\ sessionStore[sessionKey].status = "retry_after"
       /\ sessionStore[sessionKey].lastAttemptAt = now

\* C31: whenever a record with status applied is written after a successful
\* set-title call, by applyThreadTitle into the state store or by
\* markRenameResult into the session entry, its appliedTitle is the title
\* that was passed to the platform, its appliedAt is set, and it has no
\* retryAfter and no lastErrorClass, also when the record of the attempt
\* carried both from an earlier failure.
C31_AppliedRecordIsClean ==
  [][/\ \A c \in Calls :
          calls[c].pc = "setTitle" /\ calls'[c].pc = "idle" /\ ev'.result.outcome = "applied"
          => LET written == StoreGet(stateStore', calls[c].baseState.threadKey)
             IN /\ written.status = "applied"
                /\ written.appliedTitle = calls[c].baseState.lastProposedTitle
                /\ written.appliedTitle # NoText
                /\ written.appliedAt = calls[c].now
                /\ written.retryAfter = NoNumber
                /\ written.lastErrorClass = "undefined"
     /\ \A j \in Jobs :
          /\ jobs[j].pc = "applyTitle"
          /\ jobs'[j].pc = "settled"
          /\ jobs[j].sessionKey # "undefined"
          /\ sessionStore'[jobs[j].sessionKey] # sessionStore[jobs[j].sessionKey]
          /\ sessionStore'[jobs[j].sessionKey].status = "applied"
          => LET written == sessionStore'[jobs[j].sessionKey]
             IN /\ written.threadKey = jobs[j].threadKey
                /\ written.appliedTitle = jobs[j].title
                /\ written.appliedTitle # NoText
                /\ written.appliedAt = now
                /\ written.retryAfter = NoNumber
                /\ written.lastErrorClass = "undefined"]_vars

\* A failed attempt left retry_after with retryAfter and lastErrorClass; the
\* clock moved past it, a second attempt was recorded with both fields
\* carried over, and its setTitle resolved: the record is applied and has
\* neither field.
C31_AppliedAfterRetryAfter ==
  \E k \in ThreadKeys :
    /\ ev.op = "setTitle" /\ ev.threadKey = k /\ ev.result.outcome = "applied"
    /\ \A c \in Calls : calls[c].pc = "idle"
    /\ Stored(k).status = "applied"
    /\ Stored(k).attempts = 2
    /\ Stored(k).lastAttemptAt = StartMs + TickMs
    /\ Stored(k).appliedAt = StartMs + TickMs
    /\ Stored(k).retryAfter = NoNumber
    /\ Stored(k).lastErrorClass = "undefined"

\* C32: the stored attempts counter of a thread key never decreases, in the
\* state store across the steps of interleaved applyThreadTitle calls and in
\* a session entry that keeps the key across the steps of the manager's
\* jobs; and each step that records an attempt stores one more than the
\* value stored before it.
C32_AttemptsNeverDecrease ==
  [][/\ \A k \in ThreadKeys :
          /\ Stored(k).attempts # NoNumber
             => StoreGet(stateStore', k).attempts >= Stored(k).attempts
          /\ (StartsOn(k) /\ ev'.invoked # {})
             => StoreGet(stateStore', k).attempts = Nullish(Stored(k).attempts, 0) + 1
     /\ \A s \in SessionKeys :
          /\ (sessionStore[s].threadKey # "undefined"
              /\ sessionStore'[s].threadKey = sessionStore[s].threadKey)
             => sessionStore'[s].attempts >= sessionStore[s].attempts
          /\ \A j \in Jobs :
               (jobs[j].pc = "ai" /\ jobs'[j].pc # "ai" /\ jobs[j].sessionKey = s
                /\ sessionStore'[s] # sessionStore[s]
                /\ sessionStore[s].threadKey = jobs[j].threadKey)
               => sessionStore'[s].attempts = Nullish(sessionStore[s].attempts, 0) + 1]_vars

\* Two attempts on a key were recorded one after the other and both have
\* settled, the second with a failure: the stored counter is 2.
C32_TwoAttemptsCounted ==
  \E k \in ThreadKeys :
    /\ \A c \in Calls : calls[c].pc = "idle"
    /\ ev.op = "setTitle" /\ ev.threadKey = k /\ ev.result.outcome = "failed"
    /\ Stored(k).attempts = 2
    /\ Stored(k).lastAttemptAt > StartMs

\* C33: eviction from the in-memory state store is least-recently-used: of
\* the keys a set operation finds in the store, each one it evicts was asked
\* for or written longer ago than every key it keeps.
C33_EvictsLeastRecentlyUsed ==
  [][(lastParams.op = "store" /\ lastParams'.op = "store"
      /\ lastParams'.sets = lastParams.sets + 1)
     => LET KeysOf(stateMap) == { stateMap[i].threadKey : i \in 1..Len(stateMap) }
            used == lastParams'.used
            LastUse(k) == CHOOSE i \in 1..Len(used) :
                            used[i] = k /\ \A n \in (i + 1)..Len(used) : used[n] # k
        IN \A evicted \in KeysOf(lastParams.stateMap) \ KeysOf(lastParams'.stateMap),
              kept \in KeysOf(lastParams'.stateMap) :
             LastUse(evicted) < LastUse(kept)]_vars

\* A store of two entries was written with a and b, asked for b, and written
\* with c: a, the key used longest ago, is gone, b and c are there.
C33_UntouchedKeyEvicted ==
  /\ lastParams.op = "store"
  /\ lastParams.maxEntries = 2
  /\ lastParams.used = <<"a", "b", "b", "c">>
  /\ lastParams.got.threadKey = "b"
  /\ Len(lastParams.stateMap) = 2
  /\ lastParams.stateMap[1].threadKey = "b"
  /\ lastParams.stateMap[2].threadKey = "c"

\* C34: when provider.getCurrentTitle rejects, applyThreadTitle goes on
\* exactly as when it resolves with no title: the step is the one a probe
\* that found nothing takes, it invokes setTitle, writes nothing and returns
\* nothing, and the call awaits setTitle with the record of its attempt, so
\* that the final state and result are those of the setTitle outcome alone.
C34_RejectedProbeProceeds ==
  [][ev'.op = "currentTitle"
     => \A c \in Calls, currentTitle \in CurrentTitles :
          ApplyCurrentTitleSettles(c, TRUE, currentTitle)
          => /\ ApplyCurrentTitleSettles(c, FALSE, NoText)
             /\ ev'.invoked = {"setTitle"}
             /\ ev'.result = NoResult
             /\ stateStore' = stateStore
             /\ calls'[c] = [calls[c] EXCEPT !.pc = "setTitle"]
             /\ calls'[c].baseState.lastProposedTitle # NoText]_vars

\* The probe of a call has settled without a title of the thread's own, as
\* it does when it rejects: the call awaits setTitle, its pending record in
\* the store.
C34_AwaitsSetTitleAfterProbe ==
  \E c \in Calls :
    /\ ev.op = "currentTitle" /\ ev.id = c /\ ev.invoked = {"setTitle"}
    /\ calls[c].pc = "setTitle"
    /\ Stored(ev.threadKey) = calls[c].baseState
    /\ Stored(ev.threadKey).status = "pending"

\* C35: every title deriveConversationTitle returns is between 3 and
\* max(1, maxChars) characters long, neither begins nor ends with
\* whitespace, and does not end with one of ; : , . ! ? (and with maxChars
\* below 3 the result is undefined).
C35_TitleWellFormed ==
  lastParams.op = "deriveConversationTitle" =>
    LET title == lastParams.result
    IN /\ lastParams.maxChars < MIN_TITLE_LENGTH => title = NoText
       /\ title # NoText =>
            /\ Len(title) >= MIN_TITLE_LENGTH
            /\ Len(title) <= Max(1, lastParams.maxChars)
            /\ ~IsWhitespace(title[1])
            /\ ~IsWhitespace(title[Len(title)])
            /\ title[Len(title)] \notin {";", ":", ",", ".", "!", "?"}

\* " Fix  bug!" with maxChars 6 has yielded "Fix bu": the blanks collapsed,
\* the exclamation mark stripped, the title cut to six characters.
C35_TitleCutToMaxChars ==
  /\ lastParams.op = "deriveConversationTitle"
  /\ lastParams.primaryText = TextFix
  /\ lastParams.maxChars = 6
  /\ lastParams.result = <<"F","i","x"," ","b","u">>

\* C36: once the applyTitle of a job has resolved, the attempt is not
\* persisted as a failure: after the step in which the job runs to its end
\* the record of the job's thread key on its session entry is neither
\* retry_after nor disabled, however the store update that records the
\* success ends.
C36_SuccessNotPersistedAsFailure ==
  [][\A j \in Jobs :
       (jobs[j].pc = "applyTitle" /\ jobs[j].sessionKey # "undefined")
       => \A storeOutcome \in {"ok", "throws_once", "throws"}, storeError \in RenameErrors :
            (/\ ApplyTitleSettles(j, FALSE, {}, storeOutcome, storeError)
             /\ sessionStore'[jobs[j].sessionKey].threadKey = jobs[j].threadKey)
            => sessionStore'[jobs[j].sessionKey].status \notin {"retry_after", "disabled"}]_vars

\* The applyTitle of a job resolved and every store update threw: the key is
\* in the cache of applied titles, and the record on the entry is still the
\* pending one of the attempt.
C36_PendingAfterThrownUpdate ==
  \E j \in Jobs, s \in SessionKeys :
    /\ jobs[j].pc = "settled"
    /\ AppliedCacheHas(appliedThreadTitles, jobs[j].threadKey)
    /\ sessionStore[s].threadKey = jobs[j].threadKey
    /\ sessionStore[s].status = "pending"
    /\ sessionStore[s].lastProposedTitle # NoText

\* C37: a thread key whose title was applied by a job that has a sessionKey
\* is never titled again after a restart, whatever other thread keys the
\* same sessionKey is used for. After a restart the module state is empty,
\* and a job for the key is kept from applyTitle by the persisted record
\* alone (C10, C11); so the claim says that the attempt whose applyTitle
\* resolved, the store taking the update, leaves the applied record of its
\* key on its entry, and that an applied record of a key stays on its entry
\* in every step.
C37_AppliedRecordKept ==
  [][\A s \in SessionKeys, k \in NativeThreadKeys :
       /\ \A j \in Jobs :
            (/\ jobs[j].pc = "applyTitle"
             /\ jobs[j].sessionKey = s
             /\ jobs[j].threadKey = k
             /\ ApplyTitleSettles(j, FALSE, {}, "ok", {}))
            => (sessionStore'[s].threadKey = k /\ sessionStore'[s].status = "applied")
       /\ (sessionStore[s].threadKey = k /\ sessionStore[s].status = "applied")
            => (sessionStore'[s].threadKey = k /\ sessionStore'[s].status = "applied")]_vars

\* The entry of a session holds the applied record of one thread key, and a
\* job for another thread key with the same sessionKey awaits the title
\* model.
C37_OtherKeyOnSameSession ==
  \E j \in Jobs :
    /\ jobs[j].pc = "ai"
    /\ jobs[j].sessionKey # "undefined"
    /\ EntryOf(j).status = "applied"
    /\ EntryOf(j).threadKey # jobs[j].threadKey
    /\ EntryOf(j).threadKey \in NativeThreadKeys

\* C38: for the Slack and the Telegram adapter, whenever applyThreadTitle
\* resolved a thread key for a target and goes on to setTitle with the title
\* it derived, the adapter's setTitle does not take its silent early return
\* (a channel id, a thread id or a trimmed title that is missing): the
\* platform call is made, so that applied is only recorded after it resolved.
C38_SetTitleNeverReturnsEarly ==
  (ev.op = "start" /\ "setTitle" \in ev.invoked) =>
    LET target == lastParams.target
        title == calls[ev.id].baseState.lastProposedTitle
    IN /\ lastParams.op = "applyThreadTitle"
       /\ ev.threadKey # "undefined"
       /\ IF target.channel = "slack"
          THEN ~SlackSetTitleReturnsEarly(target, title)
          ELSE ~TelegramSetTitleReturnsEarly(target, title)

\* A call with the Slack adapter for a target whose channel id and thread
\* timestamp are padded waits for setTitle.
C38_PaddedSlackTargetAwaitsSetTitle ==
  /\ ev.op = "start"
  /\ ev.invoked = {"setTitle"}
  /\ ev.threadKey = "slack:C1:1.5"
  /\ lastParams.target.channel = "slack"
  /\ lastParams.target.conversationId = <<" ","C","1"," ">>
  /\ lastParams.target.threadId = <<" ","1",".","5"," ">>
  /\ calls[ev.id].pc = "setTitle"

\* C39: a job of requestNativeThreadTitleRename without a sessionKey persists
\* nothing: none of its steps changes the session store. When its applyTitle
\* rejects, with an error of any of the four classes, nothing is remembered
\* at all (no record, no cache entry, no back-off), and a job without a
\* sessionKey whose title model answered calls applyTitle, as attempt 1,
\* unless the applied cache holds its key: so the next request after the job
\* has settled calls applyTitle again. When applyTitle resolves, the key is in the applied
\* cache, and nowhere else.
C39_NoSessionKeyPersistsNothing ==
  [][\A j \in Jobs :
       ( /\ jobs[j].sessionKey = "undefined"
         /\ jobs[j].pc \in {"ai", "applyTitle"}
         /\ jobs'[j] # jobs[j] ) =>
         /\ sessionStore' = sessionStore
         /\ \A error \in {{}, {"PERMISSION_RE"}, {"RATE_LIMIT_RE"}, {"NOT_FOUND_RE"}},
               storeOutcome \in {"ok", "throws_once", "throws"} :
              ApplyTitleSettles(j, TRUE, error, storeOutcome, {}) =>
                /\ sessionStore' = sessionStore
                /\ appliedThreadTitles' = appliedThreadTitles
                /\ aiTitleDisabledUntil' = aiTitleDisabledUntil
                /\ jobs'[j].pc = "settled"
         /\ \A aiTitle \in AiTitles, updateThrows \in BOOLEAN :
              ( /\ ~AppliedCacheHas(appliedThreadTitles, jobs[j].threadKey)
                /\ AiSettles(j, FALSE, aiTitle, updateThrows) ) =>
                /\ jobs'[j].pc = "applyTitle"
                /\ jobs'[j].attempts = 1
         /\ \A storeOutcome \in {"ok", "throws_once", "throws"} :
              ApplyTitleSettles(j, FALSE, {}, storeOutcome, {}) =>
                /\ sessionStore' = sessionStore
                /\ AppliedCacheHas(appliedThreadTitles', jobs[j].threadKey)]_vars

\* The title of one thread was applied by a job without a sessionKey (the
\* applied cache holds it, the session store holds no record), and a job
\* without a sessionKey for another thread has called applyTitle.
C39_SessionlessJobAppliesTitle ==
  /\ appliedThreadTitles # <<>>
  /\ \A s \in SessionKeys : sessionStore[s] = UndefinedState
  /\ \E j \in Jobs :
       /\ jobs[j].pc = "applyTitle"
       /\ jobs[j].sessionKey = "undefined"
       /\ ~AppliedCacheHas(appliedThreadTitles, jobs[j].threadKey)
====
